---- MODULE Spec2Model ----
(***************************************************************************)
(* A model of the HK IPO research assistant's extraction pipeline:         *)
(*   scripts/hkipo/fetcher.py   _get_with_retry, fetch_upcoming_ipos,      *)
(*                              fetch_ipo_detail                           *)
(*   scripts/hkipo/history.py   _get_with_retry, fetch_history             *)
(*   scripts/cli.py             cmd_fetch_list / _detail / _history        *)
(*   scripts/hkipo/sentiment.py get_sponsor_history, _parse_int,           *)
(*                              _parse_pct, _interpret_hsi_change          *)
(*                                                                         *)
(* Text is a sequence of one-character strings.  The token Tag stands for  *)
(* one markup tag (a match of <[^>]+>).  A decimal number (a Python float  *)
(* read from a short decimal numeral) is the exact record [m, e] meaning   *)
(* m / 10^e with no trailing zero in the fraction.  An optional value is a *)
(* sequence of length at most one: None is << >>.                          *)
(***************************************************************************)
EXTENDS Integers, Sequences, FiniteSets, TLC

\* ------------------------------------------------------------------ text

Digit == {"0", "1", "2", "3", "4", "5", "6", "7", "8", "9"}

DigitVal(c) ==
    CASE c = "0" -> 0 [] c = "1" -> 1 [] c = "2" -> 2 [] c = "3" -> 3
      [] c = "4" -> 4 [] c = "5" -> 5 [] c = "6" -> 6 [] c = "7" -> 7
      [] c = "8" -> 8 [] c = "9" -> 9

Tag == "<t>"

None == << >>

Some(x) == << x >>

\* str.replace(old, new): every occurrence of the text old, left to right
RECURSIVE replace(_, _, _)
replace(s, old, new) ==
    IF s = << >> THEN << >>
    ELSE IF Len(s) >= Len(old) /\ SubSeq(s, 1, Len(old)) = old
         THEN new \o replace(SubSeq(s, Len(old) + 1, Len(s)), old, new)
         ELSE << Head(s) >> \o replace(Tail(s), old, new)

RECURSIVE lstrip(_)
lstrip(s) ==
    IF s # << >> /\ Head(s) = " " THEN lstrip(Tail(s)) ELSE s

RECURSIVE rstrip(_)
rstrip(s) ==
    IF s # << >> /\ s[Len(s)] = " " THEN rstrip(SubSeq(s, 1, Len(s) - 1)) ELSE s

\* str.strip()
strip(s) == rstrip(lstrip(s))

\* the value of a text of digits, most significant first
RECURSIVE DigitsVal(_)
DigitsVal(s) ==
    IF s = << >> THEN 0
    ELSE 10 * DigitsVal(SubSeq(s, 1, Len(s) - 1)) + DigitVal(s[Len(s)])

AllIn(s, S) == \A k \in 1..Len(s) : s[k] \in S

Count(s, c) == Cardinality({k \in 1..Len(s) : s[k] = c})

Unsigned(t) ==
    IF t # << >> /\ Head(t) \in {"+", "-"} THEN Tail(t) ELSE t

Negative(t) == t # << >> /\ Head(t) = "-"

\* int(s) accepts: optional sign, then one or more digits (around blanks)
IntOK(s) ==
    LET u == Unsigned(strip(s))
    IN  u # << >> /\ AllIn(u, Digit)

IntVal(s) ==
    LET t == strip(s)
    IN  IF Negative(t) THEN 0 - DigitsVal(Unsigned(t)) ELSE DigitsVal(Unsigned(t))

RECURSIVE Norm(_, _)
Norm(m, e) ==
    IF e > 0 /\ m % 10 = 0 THEN Norm(m \div 10, e - 1) ELSE [m |-> m, e |-> e]

\* float(s) accepts: optional sign, then digits with at most one point and
\* at least one digit (around blanks); the texts of this model hold no
\* exponent, "inf", "nan" or underscore
FloatOK(s) ==
    LET u == Unsigned(strip(s))
    IN  /\ AllIn(u, Digit \cup {"."})
        /\ Count(u, ".") <= 1
        /\ \E k \in 1..Len(u) : u[k] \in Digit

FloatVal(s) ==
    LET t    == strip(s)
        u    == Unsigned(t)
        digs == SelectSeq(u, LAMBDA c : c \in Digit)
        dot  == IF Count(u, ".") = 0 THEN Len(u) + 1
                ELSE CHOOSE k \in 1..Len(u) : u[k] = "."
        e    == IF Count(u, ".") = 0 THEN 0 ELSE Len(u) - dot
        m    == DigitsVal(digs)
    IN  Norm(IF Negative(t) THEN 0 - m ELSE m, e)

\* the end of the longest run of characters of S that starts at position j
RunEnd(s, j, S) ==
    CHOOSE k \in (j - 1)..Len(s) :
        /\ \A n \in j..k : s[n] \in S
        /\ (k = Len(s) \/ s[k + 1] \notin S)

\* re.search(r"([S]+)", s): the leftmost longest run of characters of S
FirstRun(s, S) ==
    IF \E j \in 1..Len(s) : s[j] \in S
    THEN LET j == CHOOSE j \in 1..Len(s) :
                      s[j] \in S /\ \A n \in 1..(j - 1) : s[n] \notin S
         IN  Some(SubSeq(s, j, RunEnd(s, j, S)))
    ELSE None

\* re.search(r"([+-]?[0-9.]+)%", s): at the leftmost position where it
\* matches, an optional sign and a run of digits and points that is
\* followed by a percent sign
SignedPctAt(s, i) ==
    LET j == IF s[i] \in {"+", "-"} THEN i + 1 ELSE i
        k == RunEnd(s, j, Digit \cup {"."})
    IN  k >= j /\ k < Len(s) /\ s[k + 1] = "%"

SignedPct(s) ==
    IF \E i \in 1..Len(s) : SignedPctAt(s, i)
    THEN LET i == CHOOSE i \in 1..Len(s) :
                      SignedPctAt(s, i) /\ \A n \in 1..(i - 1) : ~SignedPctAt(s, n)
             j == IF s[i] \in {"+", "-"} THEN i + 1 ELSE i
         IN  Some(SubSeq(s, i, RunEnd(s, j, Digit \cup {"."})))
    ELSE None


\* ---------------------------------------------------------------- bounds

\* characters of a text given to a function called directly
MaxLen == 4

\* the index moves at most this many points from a previous close of 10000
MaxMove == 400

\* rows of one fetched table
MaxRows == 3

\* the largest --limit of fetch history
MaxLimit == 2

\* ------------------------------------------------------- program constants

max_retries == 3

ListMinCells == 8

HistoryMinCells == 12

DefaultLimit == 50

\* ----------------------------------------------------- arguments of calls

Alphabet == {"0", "5", ".", "-", "+", "%", " ", "x"}

Texts == UNION { [1..n -> Alphabet] : n \in 0..MaxLen }

\* ------------------------------------------------------------ the network

Retryable == {"RemoteProtocolError", "ConnectError", "ReadTimeout"}

\* what one httpx.get may do: answer, or raise a transport error of a
\* retried class or of another class
Outcomes == {"ok"} \cup Retryable \cup {"WriteTimeout"}

\* ---------------------------------------------------- the upcoming-IPO page

\* The A+H registry behind search_a_share_code (hkipo/ah.py): the A-share
\* code of a company name, None when the company has no A share.
search_a_share_code(name) ==
    IF name = <<"C", "A", "T", "L">> THEN Some("300750") ELSE None

\* What the two searches in the name cell find: the text of the first
\* anchor, >([^<]+)</a>, and the five digits before ".HK", (\d{5})\.HK.
NameCells ==
    { [a |-> Some(<<" ", "M", "X">>), hk |-> Some("01717")],
      [a |-> Some(<<"C", "A", "T", "L">>), hk |-> Some("03750")],
      [a |-> Some(<<"A", "D">>), hk |-> None] }

Filler == << Tag, "x", Tag >>

\* the lot-size and entry-fee cells of a row: "1,000" and "2,525.2",
\* a lot size of "1.5", an entry fee of "N.A.", an empty lot size "N/A"
ListNumbers ==
    { << <<Tag, "1", ",", "0", "0", "0", Tag>>, <<"2", ",", "5", "2", "5", ".", "2">> >>,
      << <<"1", ".", "5">>,                      <<"2", ",", "5", "2", "5", ".", "2">> >>,
      << <<"1", ",", "0", "0", "0">>,            <<"N", ".", "A", ".">> >>,
      << <<"N", "/", "A">>,                      << >> >> }

\* a row of tblGMUpcoming as its cells, cells[0] first
ListRow(nc, num) ==
    << nc, Filler, <<"N", "/", "A">>, num[1], num[2],
       <<Tag, "3", "/", "5">>, Filler, <<"3", "/", "9", " ">> >>

\* a row of too few cells (a heading, an advertisement)
ShortRow(nc) == << nc, Filler, Filler >>

ListRows ==
    { ListRow(nc, num) : nc \in NameCells, num \in ListNumbers }
      \cup { ShortRow(nc) : nc \in {x \in NameCells : x.hk = Some("01717")} }

Tables(R) == UNION { [1..n -> R] : n \in 0..MaxRows }

\* A page body: whether the anchor is found, and the rows the row pattern
\* finds in the table.
ListPages ==
    { [anchor |-> FALSE, rows |-> << >>] }
      \cup { [anchor |-> TRUE, rows |-> t] : t \in Tables(ListRows) }

\* cells[k], counted from 0 as the source counts
cell(cells, k) == cells[k + 1]

\* clean = lambda x: re.sub(r"<[^>]+>", " ", x).strip()
clean(x) == strip(replace(x, << Tag >>, << " " >>))

\* clean_num = lambda x: re.sub(r"[^\d.]", "", clean(x))
clean_num(x) == SelectSeq(clean(x), LAMBDA c : c \in Digit \cup {"."})

Zero == [m |-> 0, e |-> 0]

Raise(e) == [kind |-> "raise", exc |-> e]

Skip == [kind |-> "skip"]

Record(r) == [kind |-> "record", rec |-> r]

\* the body of the row loop of fetch_upcoming_ipos for a row of 8 cells or
\* more: the row is skipped, a record is made, or a conversion raises
UpcomingRecord(cells) ==
    LET name_match    == cell(cells, 0).a
        code_match    == cell(cells, 0).hk
        lot_size_str  == clean_num(cell(cells, 3))
        entry_fee_str == clean_num(cell(cells, 4))
    IN  IF name_match = None \/ code_match = None THEN Skip
        ELSE IF lot_size_str # << >> /\ ~IntOK(lot_size_str) THEN Raise("ValueError")
        ELSE IF entry_fee_str # << >> /\ ~FloatOK(entry_fee_str) THEN Raise("ValueError")
        ELSE LET name   == strip(name_match[1])
                 a_code == search_a_share_code(name)
             IN  Record([code         |-> code_match[1],
                         name         |-> name,
                         price_range  |-> replace(clean(cell(cells, 2)), <<"N", "/", "A">>, << >>),
                         lot_size     |-> IF lot_size_str # << >> THEN IntVal(lot_size_str) ELSE 0,
                         entry_fee    |-> IF entry_fee_str # << >> THEN FloatVal(entry_fee_str) ELSE Zero,
                         deadline     |-> replace(clean(cell(cells, 5)), <<"/">>, <<"-">>),
                         listing_date |-> replace(clean(cell(cells, 7)), <<"/">>, <<"-">>),
                         is_ah_stock  |-> a_code # None,
                         a_share_code |-> a_code])

\* the row loop without "if len(cells) < 8: continue": cells[3] of a short
\* row raises
upcoming_row_unchecked(cells) ==
    IF Len(cells) < ListMinCells THEN Raise("IndexError")
    ELSE UpcomingRecord(cells)

\* One pass of the row loop of fetch_upcoming_ipos.
upcoming_row(cells) ==
    IF Len(cells) < ListMinCells THEN Skip
    ELSE UpcomingRecord(cells)

\* ------------------------------------------------------------ the calendar

\* the deadline cells of the rows fetch calendar reads: two spellings of one
\* date, an earlier date, and a date of another month
DeadlineCells ==
    { <<Tag, "3", "/", "5">>, <<"3", "/", "5", " ">>, <<"3", "/", "4">>,
      <<"1", "2", "/", "1">> }

\* a row of tblGMUpcoming with the deadline cell dl
CalendarRow(nc, num, dl) == [ListRow(nc, num) EXCEPT ![6] = dl]

\* rows with a lot size and an entry fee that convert, and one row whose
\* lot size does not
CalendarRows ==
    { CalendarRow(nc, << <<"1", ",", "0", "0", "0">>, <<"2", ",", "5", "2", "5", ".", "2">> >>, dl) :
          nc \in NameCells, dl \in DeadlineCells }
      \cup { CalendarRow([a |-> Some(<<" ", "M", "X">>), hk |-> Some("01717")],
                         << <<"1", ".", "5">>, <<"2", ",", "5", "2", "5", ".", "2">> >>,
                         <<"3", "/", "4">>) }

CalendarPages ==
    { [anchor |-> FALSE, rows |-> << >>] }
      \cup { [anchor |-> TRUE, rows |-> t] : t \in Tables(CalendarRows) }

\* ord(c), the code point of a character of a deadline
ord(c) ==
    IF c \in Digit THEN 48 + DigitVal(c)
    ELSE IF c = " " THEN 32
    ELSE IF c = "-" THEN 45
    ELSE IF c = "." THEN 46
    ELSE IF c = "/" THEN 47
    ELSE 120

\* a < b for two str, as list.sort compares the keys: the first character
\* that differs decides, and a proper prefix is the smaller
RECURSIVE str_lt(_, _)
str_lt(a, b) ==
    IF b = << >> THEN FALSE
    ELSE IF a = << >> THEN TRUE
    ELSE IF Head(a) = Head(b) THEN str_lt(Tail(a), Tail(b))
    ELSE ord(Head(a)) < ord(Head(b))

\* key=lambda x: x.get("deadline", ""); every record of fetch_upcoming_ipos
\* has the key
deadline_key(x) == x.deadline

\* the list left as fetch_upcoming_ipos returned it
unsorted(ipos) == ipos

\* ipos.sort(key=...): the smallest key first, records of equal key in the
\* order they had
RECURSIVE sort(_)
sort(ipos) ==
    IF ipos = << >> THEN << >>
    ELSE LET k == CHOOSE k \in 1..Len(ipos) :
                      /\ \A j \in 1..Len(ipos) :
                             ~str_lt(deadline_key(ipos[j]), deadline_key(ipos[k]))
                      /\ \A j \in 1..(k - 1) :
                             str_lt(deadline_key(ipos[k]), deadline_key(ipos[j]))
         IN  << ipos[k] >> \o sort(SubSeq(ipos, 1, k - 1) \o SubSeq(ipos, k + 1, Len(ipos)))

\* groupby(ipos, key=...): one group for each run of consecutive records of
\* equal key, in the order of the runs
RECURSIVE groupby(_)
groupby(ipos) ==
    IF ipos = << >> THEN << >>
    ELSE LET deadline == deadline_key(ipos[1])
             n == CHOOSE n \in 1..Len(ipos) :
                      /\ \A j \in 1..n : deadline_key(ipos[j]) = deadline
                      /\ n = Len(ipos) \/ deadline_key(ipos[n + 1]) # deadline
         IN  << [deadline |-> deadline, group |-> SubSeq(ipos, 1, n)] >>
                 \o groupby(SubSeq(ipos, n + 1, Len(ipos)))

\* the entry of an IPO in its round
round_item(ipo) ==
    [code         |-> ipo.code,
     name         |-> ipo.name,
     entry_fee    |-> ipo.entry_fee,
     listing_date |-> ipo.listing_date]

\* rounds.append({"deadline": deadline, "ipos": [...]}) for each group
rounds_of(ipos) ==
    LET groups == groupby(ipos)
    IN  [i \in 1..Len(groups) |->
            [deadline |-> groups[i].deadline,
             ipos     |-> [j \in 1..Len(groups[i].group) |-> round_item(groups[i].group[j])]]]

\* ------------------------------------------------------- the listed-IPO page

\* the oversubscription, win-rate and first-day-change cells of a row
HistoryNumbers ==
    { << <<"1", ",", "2", "3", "4", ".", "5", "x">>, <<"9", "5", ".", "2", "%">>,
         <<Tag, "+", "4", "2", ".", "3", "%", Tag>> >>,
      << <<"N", ".", "A", ".">>, <<"9", "5", ".", "2", "%">>, <<"-", "3", ".", "2", "%">> >>,
      << <<"8", ".", "5", "x">>, <<"N", ".", "A", ".">>, <<"-">> >>,
      << <<"-">>, <<"-">>, <<"-">> >> }

\* a row of the ns2 dataTable body as its cells, cells[0] first
HistoryRow(nc, num) ==
    << <<"1">>, nc, <<" ", "3", "/", "1">>, Filler, Filler, <<"1", "0", ".", "5">>,
       <<Tag, "1", "2">>, num[1], Filler, num[2], Filler, num[3] >>

HistoryRows ==
    { HistoryRow(nc, num) : nc \in NameCells, num \in HistoryNumbers }
      \cup { ShortRow(nc) : nc \in {x \in NameCells : x.hk = Some("01717")} }

HistoryPages ==
    { [anchor |-> FALSE, rows |-> << >>] }
      \cup { [anchor |-> TRUE, rows |-> t] : t \in Tables(HistoryRows) }

\* clean = lambda x: re.sub(r"<[^>]+>", "", x).strip()
history_clean(x) == strip(replace(x, << Tag >>, << >>))

\* m = re.search(pattern, text); float(m.group(1)) if m, else None;
\* the conversion raises on a match that is no numeral
FloatOfMatch(m) ==
    IF m = None THEN [kind |-> "value", val |-> None]
    ELSE IF FloatOK(m[1]) THEN [kind |-> "value", val |-> Some(FloatVal(m[1]))]
    ELSE Raise("ValueError")

\* One pass of the row loop of fetch_history.
history_row(cells) ==
    IF Len(cells) < HistoryMinCells THEN Skip
    ELSE LET name_match   == cell(cells, 1).a
             code_match   == cell(cells, 1).hk
             oversub_str  == history_clean(cell(cells, 7))
             oversub_val  == FloatOfMatch(FirstRun(replace(oversub_str, <<",">>, << >>),
                                                   Digit \cup {",", "."}))
             win_rate_str == history_clean(cell(cells, 9))
             win_rate_val == FloatOfMatch(FirstRun(win_rate_str, Digit \cup {"."}))
             change_str   == history_clean(cell(cells, 11))
             change_val   == FloatOfMatch(SignedPct(change_str))
         IN  IF name_match = None \/ code_match = None THEN Skip
             ELSE IF oversub_val.kind = "raise" THEN oversub_val
             ELSE IF win_rate_val.kind = "raise" THEN win_rate_val
             ELSE IF change_val.kind = "raise" THEN change_val
             ELSE Record([code                 |-> code_match[1],
                          name                 |-> strip(name_match[1]),
                          listing_date         |-> replace(history_clean(cell(cells, 2)), <<"/">>, <<"-">>),
                          offer_price          |-> history_clean(cell(cells, 5)),
                          listing_price        |-> history_clean(cell(cells, 6)),
                          oversubscription     |-> oversub_val.val,
                          win_rate_pct         |-> win_rate_val.val,
                          first_day_change_pct |-> change_val.val])

\* ipos[:limit]
Slice(s, limit) ==
    IF limit >= 0
    THEN SubSeq(s, 1, IF limit < Len(s) THEN limit ELSE Len(s))
    ELSE SubSeq(s, 1, IF Len(s) + limit > 0 THEN Len(s) + limit ELSE 0)


\* ---------------------------------------------------------- the sponsor page

SponsorMinCells == 10

\* def _parse_int(s): int(s.replace(',', '').strip()), 0 on ValueError
_parse_int(s) ==
    LET t == strip(replace(s, <<",">>, << >>))
    IN  IF IntOK(t) THEN IntVal(t) ELSE 0

\* _parse_pct failing as _parse_int fails: 0 instead of None
_parse_pct_zero_on_failure(s) ==
    LET t == strip(replace(replace(s, <<"%">>, << >>), <<"+">>, << >>))
    IN  IF FloatOK(t) THEN Some(FloatVal(t)) ELSE Some(Zero)

\* def _parse_pct(s): float(s.replace('%', '').replace('+', '').strip()),
\* None on ValueError
_parse_pct(s) ==
    LET t == strip(replace(replace(s, <<"%">>, << >>), <<"+">>, << >>))
    IN  IF FloatOK(t) THEN Some(FloatVal(t)) ELSE None

\* Tag.get_text(strip=True): the text pieces between the tags, each
\* stripped, joined
RECURSIVE get_text(_)
get_text(x) ==
    IF \E k \in 1..Len(x) : x[k] = Tag
    THEN LET k == CHOOSE k \in 1..Len(x) : x[k] = Tag /\ \A n \in 1..(k - 1) : x[n] # Tag
         IN  strip(SubSeq(x, 1, k - 1)) \o get_text(SubSeq(x, k + 1, Len(x)))
    ELSE strip(x)

\* round(num / den * 100, 1) with the fraction cut off instead of rounded
win_rate_truncated(num, den) == Norm((num * 1000) \div den, 1)

\* round(num / den * 100, 1) as a decimal, for den > 0: the nearest tenth,
\* a tie to the even tenth
win_rate_of(num, den) ==
    LET q == (num * 1000) \div den
        r == (num * 1000) % den
        t == IF 2 * r > den \/ (2 * r = den /\ q % 2 = 1) THEN q + 1 ELSE q
    IN  Norm(t, 1)

\* name, ipo_count, up_count, down_count and avg_first_day cells of a row
SponsorNumbers ==
    { << <<"2", "0">>, <<Tag, "1", "4", " ", Tag>>, <<"5">>, <<"+", "1", "2", ".", "5", "%">> >>,
      << <<"0">>, <<"0">>, <<"0">>, <<"N", "/", "A">> >>,
      << <<"n", "/", "a">>, <<"2">>, <<"1">>, <<"-", "3", ".", "2", "%">> >> }

SponsorNames == { <<"G", "S">>, <<"C", "I", "C", "C">> }

\* a row of tblSummary as its cells, cells[0] first
SponsorRow(name, num) ==
    << name, num[1], num[2], num[3], num[4], <<"1", "%", "2">>, <<"M", "X">>,
       <<"+", "4", "2", ".", "3", "%">>, <<"A", "D">>, <<"-", "1", "0", "%">> >>

SponsorRows ==
    { SponsorRow(name, num) : name \in SponsorNames, num \in SponsorNumbers }
      \cup { SubSeq(SponsorRow(<<"G", "S">>, num), 1, SponsorMinCells - 1) :
                 num \in {x \in SponsorNumbers : x[1] = <<"2", "0">>} }

\* A page body: whether table tblSummary and its tbody are found, and the
\* tr elements of the tbody.
SponsorPages ==
    { [table |-> FALSE, tbody |-> FALSE, rows |-> << >>],
      [table |-> TRUE, tbody |-> FALSE, rows |-> << >>] }
      \cup { [table |-> TRUE, tbody |-> TRUE, rows |-> t] : t \in Tables(SponsorRows) }

\* One pass of the row loop of get_sponsor_history.
sponsor_row(cells) ==
    IF Len(cells) >= SponsorMinCells
    THEN LET total == _parse_int(get_text(cell(cells, 1)))
             up    == _parse_int(get_text(cell(cells, 2)))
         IN  Record([name           |-> get_text(cell(cells, 0)),
                     ipo_count      |-> total,
                     up_count       |-> up,
                     down_count     |-> _parse_int(get_text(cell(cells, 3))),
                     avg_first_day  |-> _parse_pct(get_text(cell(cells, 4))),
                     avg_cumulative |-> _parse_pct(get_text(cell(cells, 5))),
                     best_stock     |-> get_text(cell(cells, 6)),
                     best_return    |-> _parse_pct(get_text(cell(cells, 7))),
                     worst_stock    |-> get_text(cell(cells, 8)),
                     worst_return   |-> _parse_pct(get_text(cell(cells, 9))),
                     win_rate       |-> IF total > 0 THEN win_rate_of(up, total) ELSE Zero])
    ELSE Skip


\* ----------------------------------------------------------- the detail pages

\* clawback bands of one offering page
MaxBands == 2

\* company-profile page: what the industry pattern finds
ProfilePages == { [industry |-> None], [industry |-> Some(<<" ", "F", "B">>)] }

\* the second group of a clawback row, (\d+)
RatioTexts == { <<"0">>, <<"1", "5">>, <<"0", "0">> }

ClawbackRows == { [condition |-> <<"X", "<", "1", "5", " ">>, ratio |-> r] : r \in RatioTexts }

\* ipo-info page: the title, the public-tranche shares and ratio, and the
\* rows found in the clawback section (None: no section)
InfoPages ==
    { [title |-> t, public |-> p, clawback |-> c] :
        t \in { None, Some(<<"M", "X", " ">>), Some(<<"C", "A", "T", "L">>), Some(<<" ">>) },
        p \in { None, Some(<< <<"2", "0", "3", "4">>, <<"1", "0", ".", "0", "0">> >>) },
        c \in { None } \cup { Some(b) : b \in UNION { [1..n -> ClawbackRows] : n \in 0..MaxBands } } }

\* the record with is_ah_stock set before any name is known
detail0_ah(code) ==
    [code              |-> code,
     name              |-> << >>,
     industry          |-> << >>,
     public_shares     |-> << >>,
     public_ratio      |-> << >>,
     clawback          |-> << >>,
     is_ah_stock       |-> TRUE,
     a_share_code      |-> None,
     pricing_mechanism |-> None]

\* detail = {...}: the record fetch_ipo_detail starts from (the fields the
\* two pages below fill, of the ones the source lists)
detail0(code) ==
    [code              |-> code,
     name              |-> << >>,
     industry          |-> << >>,
     public_shares     |-> << >>,
     public_ratio      |-> << >>,
     clawback          |-> << >>,
     is_ah_stock       |-> FALSE,
     a_share_code      |-> None,
     pricing_mechanism |-> None]

\* what the company-profile page adds to the record
detail_profile(d, html) ==
    IF html.industry # None
    THEN [d EXCEPT !.industry = strip(html.industry[1])]
    ELSE d

\* the non-zero test of a clawback row: if ratio != "0"
NonZero(ratio) == ratio # <<"0">>

\* for condition, ratio in clawback_rows: the bands appended
RECURSIVE clawback_of(_)
clawback_of(rs) ==
    IF rs = << >> THEN << >>
    ELSE (IF NonZero(Head(rs).ratio)
          THEN << [condition |-> strip(Head(rs).condition), ratio |-> IntVal(Head(rs).ratio)] >>
          ELSE << >>) \o clawback_of(Tail(rs))

\* if detail["clawback"]: "A"; elif detail.get("public_ratio"): "B"; else None
pricing_mechanism_of(d) ==
    IF d.clawback # << >> THEN Some("A")
    ELSE IF d.public_ratio # << >> THEN Some("B")
    ELSE None

\* what the ipo-info page adds to the record
detail_info(d, html2) ==
    LET d1 == IF html2.title # None THEN [d EXCEPT !.name = strip(html2.title[1])] ELSE d
        d2 == IF d1.name # << >>
              THEN [d1 EXCEPT !.is_ah_stock  = search_a_share_code(d1.name) # None,
                              !.a_share_code = search_a_share_code(d1.name)]
              ELSE d1
        d3 == IF html2.public # None
              THEN [d2 EXCEPT !.public_shares = strip(html2.public[1][1]),
                              !.public_ratio  = strip(html2.public[1][2])]
              ELSE d2
        d4 == IF html2.clawback # None
              THEN [d3 EXCEPT !.clawback = d3.clawback \o clawback_of(html2.clawback[1])]
              ELSE d3
    IN  [d4 EXCEPT !.pricing_mechanism = pricing_mechanism_of(d4)]


\* ------------------------------------------------------------- the commands

\* ---------------------------------------------------------- sponsor names

\* A sponsor name is a text whose characters are letters, blanks, and, each
\* taken as one element, the words the function looks for: 有限 ("youxian"),
\* 公司 ("gongsi"), 责任 ("zeren"), 股份 ("gufen"), and the traditional
\* character 證 ("ZHENG") with its simplified form 证 ("zheng").

\* elements of a name given to _normalize_sponsor_name
MaxName == 4

NameAlphabet == {"A", "a", " ", "ZHENG", "zheng", "youxian", "gongsi", "zeren", "gufen"}

Names == UNION { [1..n -> NameAlphabet] : n \in 0..MaxName }

\* for t, s in t2s.items(): result = result.replace(t, s)
t2s(name) == [k \in 1..Len(name) |-> IF name[k] = "ZHENG" THEN "zheng" ELSE name[k]]

\* str.lower()
lower(name) ==
    [k \in 1..Len(name) |->
        IF name[k] = "A" THEN "a" ELSE IF name[k] = "IPO" THEN "ipo" ELSE name[k]]

\* for suffix in ['有限公司', '有限责任公司', '股份有限公司']:
\*     result = result.replace(suffix, '')
remove_suffixes(name) ==
    LET r1 == replace(name, <<"youxian", "gongsi">>, << >>)
        r2 == replace(r1, <<"youxian", "zeren", "gongsi">>, << >>)
    IN  replace(r2, <<"gufen", "youxian", "gongsi">>, << >>)

\* def _normalize_sponsor_name(name)
_normalize_sponsor_name(name) == lower(strip(remove_suffixes(t2s(name))))


\* ---------------------------------------------------------- search_sponsor

\* entries of the summary list given to search_sponsor
MaxSummary == 2

\* option elements of the sponsor dropdown
MaxOptions == 2

\* tr elements of the tbody of a sponsor's own page
MaxDetailRows == 3

\* a in b, for texts: a occurs in b as a run of consecutive characters
is_in_nonempty(a, b) ==
    a # << >> /\ \E i \in 0..(Len(b) - Len(a)) : SubSeq(b, i + 1, i + Len(a)) = a

\* a in b, for texts: a occurs in b as a run of consecutive characters
is_in(a, b) == \E i \in 0..(Len(b) - Len(a)) : SubSeq(b, i + 1, i + Len(a)) = a

\* every directory entry is taken for a match
directory_any(name_normalized, sponsor_name) == TRUE

\* if name_normalized in sponsor_normalized or sponsor_normalized in name_normalized
name_matches(name_normalized, sponsor_name) ==
    LET sponsor_normalized == _normalize_sponsor_name(sponsor_name)
    IN  is_in(name_normalized, sponsor_normalized) \/ is_in(sponsor_normalized, name_normalized)

\* s.get("name", ""), the key "name" being optional
get_name(s) == IF s.name = None THEN << >> ELSE s.name[1]

\* the index of the last entry of sponsors that matches, 0 if none does
last_match(sponsors, name_normalized) ==
    IF \E k \in 1..Len(sponsors) : name_matches(name_normalized, get_name(sponsors[k]))
    THEN CHOOSE k \in 1..Len(sponsors) :
             /\ name_matches(name_normalized, get_name(sponsors[k]))
             /\ \A j \in (k + 1)..Len(sponsors) :
                    ~name_matches(name_normalized, get_name(sponsors[j]))
    ELSE 0

\* for s in sponsors: ... return s: the index of the entry the loop returns,
\* 0 if it ends without returning
RECURSIVE first_match(_, _)
first_match(sponsors, name_normalized) ==
    IF sponsors = << >> THEN 0
    ELSE IF name_matches(name_normalized, get_name(Head(sponsors))) THEN 1
    ELSE LET k == first_match(Tail(sponsors), name_normalized)
         IN  IF k = 0 THEN 0 ELSE k + 1

\* names of the entries of a summary list; None: an entry without the key
SummaryNames ==
    { None,
      Some(<<"youxian", "gongsi">>),
      Some(<<"A", "zheng", "youxian", "gongsi">>),
      Some(<<"zheng", "youxian", "gongsi">>),
      Some(<<"b", "b">>) }

SummaryEntries == { [name |-> n, ipo_count |-> 20, up_count |-> 14] : n \in SummaryNames }

Summaries == UNION { [1..n -> SummaryEntries] : n \in 0..MaxSummary }

\* the names searched for
Candidates ==
    { << >>, <<" ">>, <<"youxian", "gongsi">>, <<"ZHENG">>, <<"a", "zheng", "a">>,
      <<"b">>, <<"c">> }

\* option elements of select cp_ddlSponsor: value and text; "suoyou" is the
\* text 所有保荐人 of the option that stands for no choice
Options ==
    { [value |-> <<"1">>, name |-> <<"c", "youxian", "gongsi">>],
      [value |-> <<"2">>, name |-> <<"b", "c">>],
      [value |-> <<"3">>, name |-> <<"c", "youxian", "gongsi">>],
      [value |-> << >>,   name |-> <<"c">>],
      [value |-> <<"9">>, name |-> <<"suoyou">>] }

\* what the request for the dropdown page gives: the import failed, the
\* request raised, the select element is missing, or its options
DirectoryPages ==
    { [outcome |-> o, select |-> FALSE, options |-> << >>] :
          o \in {"not installed", "ConnectionError", "ok"} }
      \cup { [outcome |-> "ok", select |-> TRUE, options |-> t] :
                 t \in UNION { [1..n -> Options] : n \in 0..MaxOptions } }

\* sponsors[name] = value, for a dict kept as the sequence of its items in
\* insertion order
dict_set(sponsors, name, value) ==
    IF \E k \in 1..Len(sponsors) : sponsors[k].name = name
    THEN [k \in 1..Len(sponsors) |->
             IF sponsors[k].name = name THEN [name |-> name, value |-> value]
             ELSE sponsors[k]]
    ELSE Append(sponsors, [name |-> name, value |-> value])

\* for option in select.find_all('option'): if value and name and
\* name != '所有保荐人': sponsors[name] = value
RECURSIVE collect_options(_, _)
collect_options(sponsors, options) ==
    IF options = << >> THEN sponsors
    ELSE LET o == Head(options)
         IN  collect_options(
                 IF o.value # << >> /\ o.name # << >> /\ o.name # <<"suoyou">>
                 THEN dict_set(sponsors, o.name, o.value) ELSE sponsors,
                 Tail(options))

\* def get_all_sponsors(): the dict returned for a page
all_sponsors_of(page) ==
    IF page.outcome # "ok" \/ ~page.select THEN << >>
    ELSE collect_options(<< >>, page.options)

\* tr elements of table tblData as their cells; cells[5] is the first day
\* performance
DetailRows ==
    { << <<"x">>, <<"x">>, <<"x">>, <<"x">>, <<"x">>, perf >> :
          perf \in { <<"+", "5", "%">>, <<"-", "2", ".", "5", "%">>, <<"0", "%">>,
                     <<"N", "/", "A">> } }
      \cup { << <<"x">>, <<"x">> >> }

\* what the request for a sponsor's own page gives
DetailPages ==
    { [outcome |-> o, table |-> FALSE, tbody |-> FALSE, rows |-> << >>] :
          o \in {"not installed", "HTTPError", "ok"} }
      \cup { [outcome |-> "ok", table |-> TRUE, tbody |-> FALSE, rows |-> << >>] }
      \cup { [outcome |-> "ok", table |-> TRUE, tbody |-> TRUE, rows |-> t] :
                 t \in UNION { [1..n -> DetailRows] : n \in 0..MaxDetailRows } }

\* the first day performances the loop of get_sponsor_detail collects
RECURSIVE first_day_returns(_)
first_day_returns(rs) ==
    IF rs = << >> THEN << >>
    ELSE LET cells == Head(rs)
             perf  == IF Len(cells) >= 6 THEN _parse_pct(get_text(cell(cells, 5))) ELSE None
         IN  perf \o first_day_returns(Tail(rs))

\* a decimal of at most two places, in hundredths
Hundredths(d) == IF d.e = 0 THEN d.m * 100 ELSE IF d.e = 1 THEN d.m * 10 ELSE d.m

RECURSIVE sum(_)
sum(ds) == IF ds = << >> THEN 0 ELSE Hundredths(Head(ds)) + sum(Tail(ds))


\* ------------------------------------------------ search_stock_sentiment

\* results of one search
MaxResults == 2

\* queries = [...]: the number of queries of one call
NQueries == 3

\* a search result: the host and the path of its href
Hrefs ==
    { [host |-> "x.com", username |-> "u", status_id |-> 1],
      [host |-> "x.com", username |-> "u", status_id |-> 2],
      [host |-> "twitter.com", username |-> "u", status_id |-> 3],
      [host |-> "x.com", username |-> "i", status_id |-> 2],
      [host |-> "example.com", username |-> "u", status_id |-> 3] }

SearchResults == UNION { [1..n -> Hrefs] : n \in 0..MaxResults }

\* what running the search script gives
SearchOutcomes == {"ok", "nonzero", "TimeoutExpired"}

\* def _extract_tweet_ids(search_results)
RECURSIVE _extract_tweet_ids(_)
_extract_tweet_ids(search_results) ==
    IF search_results = << >> THEN << >>
    ELSE LET result == Head(search_results)
         IN  (IF /\ result.host \in {"x.com", "twitter.com"}
                 /\ result.username \notin {"settings", "help", "i", "search", "explore", "home"}
              THEN << [username |-> result.username, status_id |-> result.status_id] >>
              ELSE << >>)
             \o _extract_tweet_ids(Tail(search_results))

\* A JSON number, string or null, or a missing key, of the answer of the
\* metadata API: the type and, for a number, its value
Num(n) == [t |-> "int", v |-> n]

Null == [t |-> "null", v |-> 0]

Str == [t |-> "str", v |-> 0]

Missing == [t |-> "missing", v |-> 0]

\* The answer for a post that mentions an IPO: curl ends with status 0 and
\* prints a JSON object with code 200 and the tweet object
Post(likes, retweets) ==
    [run |-> "ok", doc |-> "object", code |-> 200, tweet |-> "object", author |-> "object",
     text_type |-> "str", text |-> <<"x", "IPO">>, likes |-> Num(likes),
     retweets |-> Num(retweets)]

\* what the metadata API may answer for post 1
Payloads ==
    LET ok == Post(10, 5)
    IN  { ok,
          Post(0, 0),
          [ok EXCEPT !.text = <<"a", "x">>],
          [ok EXCEPT !.text = <<"x">>],
          [ok EXCEPT !.text = << >>],
          [ok EXCEPT !.text_type = "missing", !.text = << >>],
          [ok EXCEPT !.text_type = "null", !.text = << >>],
          [ok EXCEPT !.text_type = "int", !.text = << >>],
          [ok EXCEPT !.likes = Missing],
          [ok EXCEPT !.likes = Null],
          [ok EXCEPT !.likes = Str],
          [ok EXCEPT !.retweets = Null],
          [ok EXCEPT !.author = "missing"],
          [ok EXCEPT !.author = "null"],
          [ok EXCEPT !.tweet = "missing"],
          [ok EXCEPT !.tweet = "null"],
          [ok EXCEPT !.code = 404],
          [ok EXCEPT !.doc = "list"],
          [ok EXCEPT !.doc = "null"],
          [ok EXCEPT !.doc = "notjson"],
          [ok EXCEPT !.run = "nonzero"],
          [ok EXCEPT !.run = "TimeoutExpired"],
          [ok EXCEPT !.run = "FileNotFoundError"] }

\* the stock searched for
StockName == <<"A">>

\* def _fetch_tweet_via_fxtwitter(username, status_id), for the answer
\* payload: the Tweet, None, or the exception that leaves the function
_fetch_tweet_via_fxtwitter_of(username, status_id, payload) ==
    IF payload.run = "FileNotFoundError" THEN Raise("FileNotFoundError")
    ELSE IF payload.run = "TimeoutExpired" THEN [kind |-> "none"]
    ELSE IF payload.run = "nonzero" THEN [kind |-> "none"]
    ELSE IF payload.doc = "notjson" THEN [kind |-> "none"]
    ELSE IF payload.doc # "object" THEN Raise("AttributeError")
    ELSE IF payload.code # 200 THEN [kind |-> "none"]
    ELSE IF payload.tweet = "null" THEN Raise("AttributeError")
    ELSE IF payload.tweet = "missing"
    THEN [kind |-> "tweet",
          tweet |-> [text_type |-> "str", text |-> << >>, author |-> username,
                     likes |-> Num(0), retweets |-> Num(0),
                     url |-> [username |-> username, status_id |-> status_id]]]
    ELSE IF payload.author = "null" THEN Raise("AttributeError")
    ELSE [kind |-> "tweet",
          tweet |-> [text_type |-> IF payload.text_type = "missing" THEN "str"
                                   ELSE payload.text_type,
                     text      |-> payload.text,
                     author    |-> username,
                     likes     |-> IF payload.likes.t = "missing" THEN Num(0)
                                   ELSE payload.likes,
                     retweets  |-> IF payload.retweets.t = "missing" THEN Num(0)
                                   ELSE payload.retweets,
                     url       |-> [username |-> username, status_id |-> status_id]]]

\* "if tweet and tweet.text:" and the relevance test on the text:
\* "accept", "discard", or the exception tweet.text.lower() raises
relevance(tweet, stock_name) ==
    IF tweet.text_type = "null" THEN "discard"
    ELSE IF tweet.text_type = "int" THEN "AttributeError"
    ELSE IF tweet.text = << >> THEN "discard"
    ELSE IF \/ is_in(lower(stock_name), lower(tweet.text))
            \/ is_in(<<"ganggu">>, tweet.text)
            \/ is_in(<<"daxin">>, tweet.text)
            \/ is_in(<<"ipo">>, lower(tweet.text))
            \/ is_in(<<"xingu">>, tweet.text)
         THEN "accept"
    ELSE "discard"

\* key=lambda t: t.likes + t.retweets can be computed
key_ok(t) == t.likes.t = "int" /\ t.retweets.t = "int"

key(t) == t.likes.v + t.retweets.v

\* tweets.sort(key=..., reverse=True): the greatest key first, tweets of
\* equal key in the order they had
RECURSIVE sort_reverse(_)
sort_reverse(ts) ==
    IF ts = << >> THEN << >>
    ELSE LET k == CHOOSE k \in 1..Len(ts) :
                      /\ \A j \in 1..Len(ts) : key(ts[j]) <= key(ts[k])
                      /\ \A j \in 1..(k - 1) : key(ts[j]) < key(ts[k])
         IN  << ts[k] >> \o sort_reverse(SubSeq(ts, 1, k - 1) \o SubSeq(ts, k + 1, Len(ts)))

\* the loops go on whatever the number of tweets accepted
limit_ignored(n, lim) == FALSE

\* if len(tweets) >= limit: break
limit_reached(n, lim) == n >= lim

\* every status id is taken for a new one
never_seen(status_id, seen) == FALSE

\* if status_id in seen_ids: continue
is_seen(status_id, seen) == status_id \in seen


VARIABLES
    cmd,        \* the entry point: a command line ("list", "detail", "history",
                \* "calendar", "sponsor", "vhsi") or a direct call of a function
    arg,        \* the argument of a direct call
    limit,      \* fetch history --limit
    args_json,  \* sponsor --json
    pc,         \* where the command stands
    pageno,     \* fetch_ipo_detail: the page being fetched, 1 or 2
    attempt,    \* _get_with_retry: the loop variable
    outcome,    \* what the latest HTTP request did ("none" before the first)
    exc,        \* the exception being handled ("none": none)
    html,       \* the latest page body received
    rows,       \* the rows the loop has still to visit
    ipos,       \* the records appended so far (ipos, sponsors)
    detail,     \* fetch_ipo_detail: the record being filled
    ret,        \* what the extractor returned to the command
    stdout,     \* the documents printed on standard output
    stderr,     \* the messages printed on standard error
    exit_code,  \* the exit status, -1 while the command runs
    seen_ids,   \* search_stock_sentiment: the status ids met so far
    tweets,     \* search_stock_sentiment: the tweets accepted so far
    log         \* the requests made to other hosts so far, oldest first

vars == << cmd, arg, limit, args_json, pc, pageno, attempt, outcome, exc, html, rows,
           ipos, detail, ret, stdout, stderr, exit_code, seen_ids, tweets, log >>

Commands == {"list", "detail", "history", "calendar", "sponsor", "vhsi"}

\* the commands that call fetch_upcoming_ipos: cmd_fetch_list, and
\* cmd_fetch_calendar through fetch_calendar
ListCallers == {"list", "calendar"}

\* where fetch_upcoming_ipos returns to
after_list(c) == IF c = "calendar" THEN "group" ELSE "print"

\* the functions called directly, each with the arguments it is given
Calls == {"_parse_pct", "_normalize_sponsor_name"}

Args(c) ==
    IF c = "_parse_pct" THEN Texts
    ELSE IF c = "_normalize_sponsor_name" THEN Names
    ELSE IF c = "search_stock_sentiment"
    THEN { [stock_name |-> StockName, payload |-> p] : p \in Payloads }
    ELSE IF c = "search_sponsor"
    THEN { [sponsors |-> l, name |-> n] : l \in Summaries, n \in Candidates }
    ELSE {<< >>}

Limits == {0 - 1} \cup (0..MaxLimit)

Code == "03750"

Init ==
    /\ cmd \in Commands \cup Calls \cup {"search_sponsor", "search_stock_sentiment"}
    /\ arg \in Args(cmd)
    /\ limit \in (IF cmd \in {"history", "search_stock_sentiment"} THEN Limits
                  ELSE {DefaultLimit})
    /\ args_json \in BOOLEAN
    /\ (cmd \notin {"sponsor", "vhsi"} => args_json)
    /\ pc = "main"
    /\ pageno = 0
    /\ attempt = 0
    /\ outcome = "none"
    /\ exc = "none"
    /\ html = << >>
    /\ rows = << >>
    /\ ipos = << >>
    /\ detail = << >>
    /\ ret = << >>
    /\ stdout = << >>
    /\ stderr = << >>
    /\ exit_code = 0 - 1
    /\ seen_ids = {}
    /\ tweets = << >>
    /\ log = << >>

\* main(): the dispatch on args.subcmd (cli.py) and on args.command
\* (sentiment.py); the extractor is entered
main ==
    /\ pc = "main"
    /\ cmd \in Commands
    /\ pc' = IF cmd \in {"sponsor", "vhsi"} THEN "request" ELSE "get"
    /\ pageno' = IF cmd \in {"sponsor", "vhsi"} THEN 0 ELSE 1
    /\ detail' = IF cmd = "detail" THEN detail0(Code) ELSE detail
    /\ UNCHANGED << seen_ids, tweets, log >>
    /\ UNCHANGED << cmd, arg, limit, args_json, attempt, outcome, exc, html, rows, ipos,
                    ret, stdout, stderr, exit_code >>

\* the bodies the page asked for may have
Pages ==
    IF cmd = "list" THEN ListPages
    ELSE IF cmd = "calendar" THEN CalendarPages
    ELSE IF cmd = "history" THEN HistoryPages
    ELSE IF pageno = 1 THEN ProfilePages
    ELSE InfoPages

\* a retry on every exception, as "except Exception as e" would give
Retries_any_exception(o, k) == k < max_retries - 1

\* except (RemoteProtocolError, ConnectError, ReadTimeout) as e:
\* if attempt < max_retries - 1: sleep, continue
Retries(o, k) == o \in Retryable /\ k < max_retries - 1

\* _get_with_retry: one pass of the loop, for attempt in range(max_retries).
\* The request answers and its body is returned to the extractor; or it
\* raises, and the loop sleeps and goes on, or the exception leaves the loop
\* for the extractor's handler.
_get_with_retry ==
    /\ pc = "get"
    /\ attempt < max_retries
    /\ \E o \in Outcomes :
        /\ outcome' = o
        /\ IF o = "ok"
           THEN /\ \E body \in Pages : html' = body
                /\ pc' = "parse"
                /\ attempt' = 0
                /\ exc' = exc
           ELSE IF Retries(o, attempt)
           THEN /\ attempt' = attempt + 1
                /\ UNCHANGED << pc, html, exc >>
           ELSE /\ exc' = o
                /\ pc' = "except"
                /\ UNCHANGED << attempt, html >>
    /\ UNCHANGED << seen_ids, tweets, log >>
    /\ UNCHANGED << cmd, arg, limit, args_json, pageno, rows, ipos, detail, ret,
                    stdout, stderr, exit_code >>


\* the result without a table, as get_sponsor_history reports a missing table
EmptyResult_error_entry(c) == << [error |-> "Could not find table"] >>

\* if not table_match: return [] (fetch_upcoming_ipos);
\* if not tbody_match: return {"ipos": []} (fetch_history)
EmptyResult(c) == IF c \in ListCallers THEN << >> ELSE [ipos |-> << >>]

\* the loop body of an extractor applied to the next row: the row is
\* skipped, its record appended, or the conversion's exception raised
RowLoop(result) ==
    /\ rows' = Tail(rows)
    /\ ipos' = IF result.kind = "record" THEN Append(ipos, result.rec) ELSE ipos
    /\ exc' = IF result.kind = "raise" THEN result.exc ELSE exc
    /\ pc' = IF result.kind = "raise" THEN "except" ELSE pc

\* fetch_upcoming_ipos, after the page came: the table is searched for; then
\* one row per step; then return ipos
fetch_upcoming_ipos ==
    /\ cmd \in ListCallers
    /\ \/ /\ pc = "parse"
          /\ IF html.anchor
             THEN /\ rows' = html.rows
                  /\ ipos' = << >>
                  /\ pc' = "rows"
                  /\ ret' = ret
             ELSE /\ ret' = EmptyResult(cmd)
                  /\ pc' = after_list(cmd)
                  /\ UNCHANGED << rows, ipos >>
          /\ exc' = exc
       \/ /\ pc = "rows"
          /\ rows # << >>
          /\ RowLoop(upcoming_row(Head(rows)))
          /\ ret' = ret
       \/ /\ pc = "rows"
          /\ rows = << >>
          /\ ret' = ipos
          /\ pc' = after_list(cmd)
          /\ UNCHANGED << rows, ipos, exc >>
    /\ UNCHANGED << seen_ids, tweets, log >>
    /\ UNCHANGED << cmd, arg, limit, args_json, pageno, attempt, outcome, html, detail,
                    stdout, stderr, exit_code >>

\* the handler re-raising: the command ends with a traceback, status 1
fetch_upcoming_ipos_reraise ==
    /\ cmd \in ListCallers
    /\ pc = "except"
    /\ stderr' = Append(stderr, << "Fetch failed", exc >>)
    /\ pc' = "exit"
    /\ exit_code' = 1
    /\ UNCHANGED << seen_ids, tweets, log >>
    /\ UNCHANGED << cmd, arg, limit, args_json, pageno, attempt, outcome, exc, html, rows,
                    ipos, detail, ret, stdout >>

\* except Exception as e: print(f"Fetch failed: {e}", file=sys.stderr); return []
fetch_upcoming_ipos_except ==
    /\ cmd \in ListCallers
    /\ pc = "except"
    /\ stderr' = Append(stderr, << "Fetch failed", exc >>)
    /\ ret' = << >>
    /\ pc' = after_list(cmd)
    /\ exc' = "none"
    /\ UNCHANGED << seen_ids, tweets, log >>
    /\ UNCHANGED << cmd, arg, limit, args_json, pageno, attempt, outcome, html, rows, ipos,
                    detail, stdout, exit_code >>

\* cmd_fetch_list: print(json.dumps({"ipos": data})); main returns
cmd_fetch_list ==
    /\ cmd = "list"
    /\ pc = "print"
    /\ stdout' = Append(stdout, [ipos |-> ret])
    /\ pc' = "exit"
    /\ exit_code' = 0
    /\ UNCHANGED << seen_ids, tweets, log >>
    /\ UNCHANGED << cmd, arg, limit, args_json, pageno, attempt, outcome, exc, html, rows,
                    ipos, detail, ret, stderr >>

\* fetch_calendar, after fetch_upcoming_ipos returned: the list is sorted in
\* place, grouped, and {"rounds": rounds} is returned
fetch_calendar ==
    /\ cmd = "calendar"
    /\ pc = "group"
    /\ ipos' = sort(ret)
    /\ ret' = [rounds |-> rounds_of(sort(ret))]
    /\ pc' = "print"
    /\ UNCHANGED << seen_ids, tweets, log >>
    /\ UNCHANGED << cmd, arg, limit, args_json, pageno, attempt, outcome, exc, html, rows,
                    detail, stdout, stderr, exit_code >>

\* cmd_fetch_calendar: print(json.dumps(data)); main returns
cmd_fetch_calendar ==
    /\ cmd = "calendar"
    /\ pc = "print"
    /\ stdout' = Append(stdout, ret)
    /\ pc' = "exit"
    /\ exit_code' = 0
    /\ UNCHANGED << seen_ids, tweets, log >>
    /\ UNCHANGED << cmd, arg, limit, args_json, pageno, attempt, outcome, exc, html, rows,
                    ipos, detail, ret, stderr >>

\* fetch_history(limit), after the page came
fetch_history ==
    /\ cmd = "history"
    /\ \/ /\ pc = "parse"
          /\ IF html.anchor
             THEN /\ rows' = html.rows
                  /\ ipos' = << >>
                  /\ pc' = "rows"
                  /\ ret' = ret
             ELSE /\ ret' = EmptyResult(cmd)
                  /\ pc' = "print"
                  /\ UNCHANGED << rows, ipos >>
          /\ exc' = exc
       \/ /\ pc = "rows"
          /\ rows # << >>
          /\ RowLoop(history_row(Head(rows)))
          /\ ret' = ret
       \/ /\ pc = "rows"
          /\ rows = << >>
          /\ ret' = [ipos |-> Slice(ipos, limit)]
          /\ pc' = "print"
          /\ UNCHANGED << rows, ipos, exc >>
    /\ UNCHANGED << seen_ids, tweets, log >>
    /\ UNCHANGED << cmd, arg, limit, args_json, pageno, attempt, outcome, html, detail,
                    stdout, stderr, exit_code >>

\* except Exception as e: print(f"Fetch history failed: {e}", file=sys.stderr);
\* return {"ipos": []}
fetch_history_except ==
    /\ cmd = "history"
    /\ pc = "except"
    /\ stderr' = Append(stderr, << "Fetch history failed", exc >>)
    /\ ret' = [ipos |-> << >>]
    /\ pc' = "print"
    /\ exc' = "none"
    /\ UNCHANGED << seen_ids, tweets, log >>
    /\ UNCHANGED << cmd, arg, limit, args_json, pageno, attempt, outcome, html, rows, ipos,
                    detail, stdout, exit_code >>

\* cmd_fetch_history: print(json.dumps(data)); main returns
cmd_fetch_history ==
    /\ cmd = "history"
    /\ pc = "print"
    /\ stdout' = Append(stdout, ret)
    /\ pc' = "exit"
    /\ exit_code' = 0
    /\ UNCHANGED << seen_ids, tweets, log >>
    /\ UNCHANGED << cmd, arg, limit, args_json, pageno, attempt, outcome, exc, html, rows,
                    ipos, detail, ret, stderr >>

\* fetch_ipo_detail(code), after a page came: the profile page is read and
\* the ipo-info page asked for; the ipo-info page is read and detail returned
fetch_ipo_detail ==
    /\ cmd = "detail"
    /\ pc = "parse"
    /\ \/ /\ pageno = 1
          /\ detail' = detail_profile(detail, html)
          /\ pageno' = 2
          /\ pc' = "get"
          /\ ret' = ret
       \/ /\ pageno = 2
          /\ detail' = detail_info(detail, html)
          /\ ret' = detail_info(detail, html)
          /\ pc' = "print"
          /\ pageno' = pageno
    /\ UNCHANGED << seen_ids, tweets, log >>
    /\ UNCHANGED << cmd, arg, limit, args_json, attempt, outcome, exc, html, rows, ipos,
                    stdout, stderr, exit_code >>

\* except Exception as e: print(f"Fetch detail failed: {e}", file=sys.stderr);
\* return detail
fetch_ipo_detail_except ==
    /\ cmd = "detail"
    /\ pc = "except"
    /\ stderr' = Append(stderr, << "Fetch detail failed", exc >>)
    /\ ret' = detail
    /\ pc' = "print"
    /\ exc' = "none"
    /\ UNCHANGED << seen_ids, tweets, log >>
    /\ UNCHANGED << cmd, arg, limit, args_json, pageno, attempt, outcome, html, rows, ipos,
                    detail, stdout, exit_code >>

\* cmd_fetch_detail: print(json.dumps(data)); main returns
cmd_fetch_detail ==
    /\ cmd = "detail"
    /\ pc = "print"
    /\ stdout' = Append(stdout, ret)
    /\ pc' = "exit"
    /\ exit_code' = 0
    /\ UNCHANGED << seen_ids, tweets, log >>
    /\ UNCHANGED << cmd, arg, limit, args_json, pageno, attempt, outcome, exc, html, rows,
                    ipos, detail, ret, stderr >>


\* what requests.get and raise_for_status may do for the sponsor page, and
\* "not installed": requests or bs4 could not be imported
SponsorOutcomes == {"ok", "ConnectionError", "HTTPError", "not installed"}

TopN == 20

\* get_sponsor_history: the request; the table and its body are looked for;
\* one row per step; return sponsors
get_sponsor_history ==
    /\ cmd = "sponsor"
    /\ \/ /\ pc = "request"
          /\ \E o \in SponsorOutcomes :
              /\ outcome' = o
              /\ IF o = "ok"
                 THEN /\ \E body \in SponsorPages : html' = body
                      /\ pc' = "parse"
                      /\ ret' = ret
                 ELSE /\ ret' = << [error |-> o] >>
                      /\ pc' = "print"
                      /\ html' = html
          /\ UNCHANGED << rows, ipos, exc >>
       \/ /\ pc = "parse"
          /\ IF ~html.table
             THEN /\ ret' = << [error |-> "Could not find sponsor summary table"] >>
                  /\ pc' = "print"
                  /\ UNCHANGED << rows, ipos >>
             ELSE IF ~html.tbody
             THEN /\ ret' = << [error |-> "Could not find table body"] >>
                  /\ pc' = "print"
                  /\ UNCHANGED << rows, ipos >>
             ELSE /\ rows' = html.rows
                  /\ ipos' = << >>
                  /\ pc' = "rows"
                  /\ ret' = ret
          /\ UNCHANGED << outcome, html, exc >>
       \/ /\ pc = "rows"
          /\ rows # << >>
          /\ RowLoop(sponsor_row(Head(rows)))
          /\ UNCHANGED << outcome, html, ret >>
       \/ /\ pc = "rows"
          /\ rows = << >>
          /\ ret' = ipos
          /\ pc' = "print"
          /\ UNCHANGED << outcome, html, rows, ipos, exc >>
    /\ UNCHANGED << seen_ids, tweets, log >>
    /\ UNCHANGED << cmd, arg, limit, args_json, pageno, attempt, detail, stdout, stderr,
                    exit_code >>

\* the line of the text table for one sponsor
table_line(s) ==
    << s.name, s.ipo_count, s.up_count, s.down_count, s.win_rate,
       IF s.avg_first_day # None /\ s.avg_first_day # Some(Zero) THEN s.avg_first_day ELSE None >>

\* main() of sentiment.py, command "sponsor", after get_sponsor_history():
\* an error entry is reported and the exit status is 1; else the list is
\* printed, as JSON or as the table of the first 20
main_sponsor ==
    /\ cmd = "sponsor"
    /\ pc = "print"
    /\ IF ret # << >> /\ "error" \in DOMAIN ret[1]
       THEN /\ stderr' = Append(stderr, << "Error", ret[1].error >>)
            /\ exit_code' = 1
            /\ stdout' = stdout
       ELSE /\ stdout' = Append(stdout,
                                IF args_json THEN ret
                                ELSE [k \in 1..Len(Slice(ret, TopN)) |-> table_line(ret[k])])
            /\ exit_code' = 0
            /\ stderr' = stderr
    /\ pc' = "exit"
    /\ UNCHANGED << seen_ids, tweets, log >>
    /\ UNCHANGED << cmd, arg, limit, args_json, pageno, attempt, outcome, exc, html, rows,
                    ipos, detail, ret >>

\* ------------------------------------------------------------ the index

\* the first threshold taken with >= for >
_interpret_hsi_change_ge(change_pct) ==
    IF change_pct >= 300 THEN "extreme-bullish"
    ELSE IF change_pct > 100 THEN "bullish"
    ELSE IF change_pct > 0 THEN "mild-bullish"
    ELSE IF change_pct > 0 - 100 THEN "neutral"
    ELSE IF change_pct > 0 - 300 THEN "cautious"
    ELSE "panic"

\* the last threshold taken with >= for >
_interpret_hsi_change_late_panic(change_pct) ==
    IF change_pct > 300 THEN "extreme-bullish"
    ELSE IF change_pct > 100 THEN "bullish"
    ELSE IF change_pct > 0 THEN "mild-bullish"
    ELSE IF change_pct > 0 - 100 THEN "neutral"
    ELSE IF change_pct >= 0 - 300 THEN "cautious"
    ELSE "panic"

\* def _interpret_hsi_change(change_pct), change_pct in hundredths of a
\* percent; the six texts returned are named by their meaning
_interpret_hsi_change(change_pct) ==
    IF change_pct > 300 THEN "extreme-bullish"
    ELSE IF change_pct > 100 THEN "bullish"
    ELSE IF change_pct > 0 THEN "mild-bullish"
    ELSE IF change_pct > 0 - 100 THEN "neutral"
    ELSE IF change_pct > 0 - 300 THEN "cautious"
    ELSE "panic"

\* round(n / d), a tie to the even integer, for d > 0
RoundDiv(n, d) ==
    LET q == n \div d
        r == n % d
    IN  IF 2 * r > d \/ (2 * r = d /\ q % 2 = 1) THEN q + 1 ELSE q

\* meta of the chart answer: regularMarketPrice and previousClose, in points
Metas ==
    { [price |-> 10000 + k, prev_close |-> c] :
        k \in (0 - MaxMove)..MaxMove, c \in {10000} }
      \cup { [price |-> 10000, prev_close |-> 0] }

\* the dict get_vhsi returns for an answer (change and change_pct in
\* hundredths; of the fields copied from meta, price and previous_close)
vhsi_of(meta) ==
    LET change_pct == IF meta.prev_close # 0
                      THEN RoundDiv((meta.price - meta.prev_close) * 10000, meta.prev_close)
                      ELSE 0
    IN  [index          |-> "HSI",
         price          |-> meta.price,
         previous_close |-> meta.prev_close,
         change         |-> (meta.price - meta.prev_close) * 100,
         change_pct     |-> change_pct,
         interpretation |-> _interpret_hsi_change(change_pct)]

\* get_vhsi: the request and what is made of its answer
get_vhsi ==
    /\ cmd = "vhsi"
    /\ pc = "request"
    /\ \E o \in SponsorOutcomes :
        /\ outcome' = o
        /\ IF o = "ok"
           THEN \E meta \in Metas : html' = meta /\ ret' = vhsi_of(meta)
           ELSE ret' = [error |-> o] /\ html' = html
    /\ pc' = "print"
    /\ UNCHANGED << seen_ids, tweets, log >>
    /\ UNCHANGED << cmd, arg, limit, args_json, pageno, attempt, exc, rows, ipos, detail,
                    stdout, stderr, exit_code >>

\* main() of sentiment.py, command "vhsi", after get_vhsi()
main_vhsi ==
    /\ cmd = "vhsi"
    /\ pc = "print"
    /\ IF args_json
       THEN /\ stdout' = Append(stdout, ret)
            /\ exit_code' = 0
            /\ stderr' = stderr
       ELSE IF "error" \in DOMAIN ret
       THEN /\ stderr' = Append(stderr, << "Error", ret.error >>)
            /\ exit_code' = 1
            /\ stdout' = stdout
       ELSE /\ stdout' = Append(stdout, << ret.price, ret.change, ret.change_pct,
                                           ret.interpretation >>)
            /\ exit_code' = 0
            /\ stderr' = stderr
    /\ pc' = "exit"
    /\ UNCHANGED << seen_ids, tweets, log >>
    /\ UNCHANGED << cmd, arg, limit, args_json, pageno, attempt, outcome, exc, html, rows,
                    ipos, detail, ret >>

\* --------------------------------------------------------- search_sponsor

\* def get_sponsor_detail(sponsor_id): the dict returned for a page, or None
sponsor_detail_of(page) ==
    IF page.outcome # "ok" \/ ~page.table \/ ~page.tbody THEN None
    ELSE LET ipo_count == Len(page.rows)
             returns   == first_day_returns(page.rows)
             up_count  == Cardinality({k \in 1..Len(returns) : returns[k].m > 0})
             down_count == Cardinality({k \in 1..Len(returns) : returns[k].m < 0})
         IN  Some([ipo_count     |-> ipo_count,
                   up_count      |-> up_count,
                   down_count    |-> down_count,
                   avg_first_day |-> IF returns # << >>
                                     THEN Norm(RoundDiv(sum(returns), Len(returns)), 2)
                                     ELSE Zero,
                   win_rate      |-> IF ipo_count > 0
                                     THEN win_rate_of(up_count, ipo_count) ELSE Zero])

\* the dict search_sponsor builds of a directory entry and its detail
directory_record(sponsor_name, d) ==
    [name           |-> sponsor_name,
     ipo_count      |-> d.ipo_count,
     up_count       |-> d.up_count,
     down_count     |-> d.down_count,
     avg_first_day  |-> d.avg_first_day,
     win_rate       |-> d.win_rate,
     avg_cumulative |-> None,
     best_stock     |-> <<"N", "/", "A">>,
     best_return    |-> None,
     worst_stock    |-> <<"N", "/", "A">>,
     worst_return   |-> None]

\* search_sponsor(sponsors, name): the loop over the list given; the entry
\* it returns, or the directory is turned to
search_sponsor ==
    /\ cmd = "search_sponsor"
    /\ pc = "main"
    /\ LET k == first_match(arg.sponsors, _normalize_sponsor_name(arg.name))
       IN  IF k # 0
           THEN /\ ret' = Some(arg.sponsors[k])
                /\ pc' = "exit"
           ELSE /\ ret' = ret
                /\ pc' = "directory"
    /\ UNCHANGED << seen_ids, tweets, log >>
    /\ UNCHANGED << cmd, arg, limit, args_json, pageno, attempt, outcome, exc, html, rows,
                    ipos, detail, stdout, stderr, exit_code >>

\* all_sponsors = get_all_sponsors(): the request for the dropdown page
get_all_sponsors ==
    /\ cmd = "search_sponsor"
    /\ pc = "directory"
    /\ \E page \in DirectoryPages :
        /\ html' = all_sponsors_of(page)
        /\ rows' = all_sponsors_of(page)
    /\ log' = Append(log, [call |-> "get_all_sponsors"])
    /\ pc' = "lookup"
    /\ UNCHANGED << seen_ids, tweets >>
    /\ UNCHANGED << cmd, arg, limit, args_json, pageno, attempt, outcome, exc,
                    ipos, detail, ret, stdout, stderr, exit_code >>

\* for sponsor_name, sponsor_id in all_sponsors.items(): the name is compared;
\* after the last item, return None
search_sponsor_lookup ==
    /\ cmd = "search_sponsor"
    /\ pc = "lookup"
    /\ IF rows = << >>
       THEN /\ ret' = None
            /\ pc' = "exit"
            /\ rows' = rows
       ELSE IF name_matches(_normalize_sponsor_name(arg.name), Head(rows).name)
       THEN /\ pc' = "detail"
            /\ UNCHANGED << rows, ret >>
       ELSE /\ rows' = Tail(rows)
            /\ UNCHANGED << pc, ret >>
    /\ UNCHANGED << seen_ids, tweets, log >>
    /\ UNCHANGED << cmd, arg, limit, args_json, pageno, attempt, outcome, exc, html,
                    ipos, detail, stdout, stderr, exit_code >>

\* detail = get_sponsor_detail(sponsor_id): the request for the sponsor's
\* page; if detail: return {...}
get_sponsor_detail ==
    /\ cmd = "search_sponsor"
    /\ pc = "detail"
    /\ \E page \in DetailPages :
        LET d == sponsor_detail_of(page)
        IN  /\ detail' = d
            /\ log' = Append(log, [call |-> "get_sponsor_detail", id |-> Head(rows).value,
                                   usable |-> d # None])
            /\ IF d # None
               THEN /\ ret' = Some(directory_record(Head(rows).name, d[1]))
                    /\ pc' = "exit"
                    /\ rows' = rows
               ELSE /\ rows' = Tail(rows)
                    /\ pc' = "lookup"
                    /\ ret' = ret
    /\ UNCHANGED << seen_ids, tweets >>
    /\ UNCHANGED << cmd, arg, limit, args_json, pageno, attempt, outcome, exc, html,
                    ipos, stdout, stderr, exit_code >>

\* ------------------------------------------------ search_stock_sentiment

\* the answer of the metadata API for a post: post 1 is answered as the
\* call's environment has it, posts 2 and 3 are posts that mention an IPO
payload_of(status_id) ==
    IF status_id = 1 THEN arg.payload
    ELSE IF status_id = 2 THEN Post(100, 1)
    ELSE Post(0, 0)

\* search_stock_sentiment(stock_name, limit): the two loops, but for the
\* calls they make, then the sort and the return
search_stock_sentiment ==
    /\ cmd = "search_stock_sentiment"
    /\ \/ /\ pc = "main"
          /\ pageno' = 1
          /\ pc' = "query"
          /\ UNCHANGED << rows, ret, exc >>
       \/ /\ pc = "query"
          /\ pageno > NQueries \/ limit_reached(Len(tweets), limit)
          /\ IF \A k \in 1..Len(tweets) : key_ok(tweets[k])
             THEN /\ ret' = Slice(sort_reverse(tweets), limit)
                  /\ pc' = "exit"
                  /\ exc' = exc
             ELSE /\ exc' = "TypeError"
                  /\ pc' = "raised"
                  /\ ret' = ret
          /\ UNCHANGED << pageno, rows >>
       \/ /\ pc = "ids"
          /\ rows = << >> \/ limit_reached(Len(tweets), limit)
          /\ pageno' = pageno + 1
          /\ pc' = "query"
          /\ UNCHANGED << rows, ret, exc >>
       \/ /\ pc = "ids"
          /\ rows # << >>
          /\ ~limit_reached(Len(tweets), limit)
          /\ is_seen(Head(rows).status_id, seen_ids)
          /\ rows' = Tail(rows)
          /\ UNCHANGED << pc, pageno, ret, exc >>
    /\ UNCHANGED << seen_ids, tweets, log >>
    /\ UNCHANGED << cmd, arg, limit, args_json, attempt, outcome, html,
                    ipos, detail, stdout, stderr, exit_code >>

\* search_results = _search_ddg(query, max_results=10);
\* tweet_ids = _extract_tweet_ids(search_results)
_search_ddg ==
    /\ cmd = "search_stock_sentiment"
    /\ pc = "query"
    /\ pageno <= NQueries
    /\ ~limit_reached(Len(tweets), limit)
    /\ \E o \in SearchOutcomes : \E r \in SearchResults :
        LET search_results == IF o = "ok" THEN r ELSE << >>
            tweet_ids      == _extract_tweet_ids(search_results)
        IN  /\ rows' = tweet_ids
            /\ log' = Append(log, [call     |-> "_search_ddg",
                                   query    |-> pageno,
                                   accepted |-> Len(tweets),
                                   ids      |-> {tweet_ids[k].status_id :
                                                    k \in 1..Len(tweet_ids)}])
    /\ pc' = "ids"
    /\ UNCHANGED << seen_ids, tweets >>
    /\ UNCHANGED << cmd, arg, limit, args_json, pageno, attempt, outcome, exc, html,
                    ipos, detail, ret, stdout, stderr, exit_code >>

\* seen_ids.add(status_id); tweet = _fetch_tweet_via_fxtwitter(username,
\* status_id); the tweet is appended if it has a text that is relevant
_fetch_tweet_via_fxtwitter ==
    /\ cmd = "search_stock_sentiment"
    /\ pc = "ids"
    /\ rows # << >>
    /\ ~limit_reached(Len(tweets), limit)
    /\ ~is_seen(Head(rows).status_id, seen_ids)
    /\ seen_ids' = seen_ids \cup {Head(rows).status_id}
    /\ log' = Append(log, [call     |-> "_fetch_tweet_via_fxtwitter",
                           id       |-> Head(rows).status_id,
                           accepted |-> Len(tweets)])
    /\ LET got == _fetch_tweet_via_fxtwitter_of(Head(rows).username, Head(rows).status_id,
                                                payload_of(Head(rows).status_id))
           rel == IF got.kind = "tweet" THEN relevance(got.tweet, arg.stock_name)
                  ELSE "discard"
       IN  IF got.kind = "raise" \/ rel = "AttributeError"
           THEN /\ exc' = IF got.kind = "raise" THEN got.exc ELSE rel
                /\ pc' = "raised"
                /\ UNCHANGED << rows, tweets >>
           ELSE /\ tweets' = IF rel = "accept" THEN Append(tweets, got.tweet) ELSE tweets
                /\ rows' = Tail(rows)
                /\ UNCHANGED << pc, exc >>
    /\ UNCHANGED << cmd, arg, limit, args_json, pageno, attempt, outcome, html,
                    ipos, detail, ret, stdout, stderr, exit_code >>

\* ----------------------------------------------------------- direct calls

\* a function called with arg; its value is returned
call ==
    /\ pc = "main"
    /\ cmd \in Calls
    /\ ret' = IF cmd = "_parse_pct" THEN _parse_pct(arg) ELSE _normalize_sponsor_name(arg)
    /\ pc' = "exit"
    /\ UNCHANGED << seen_ids, tweets, log >>
    /\ UNCHANGED << cmd, arg, limit, args_json, pageno, attempt, outcome, exc, html, rows,
                    ipos, detail, stdout, stderr, exit_code >>

Next ==
    \/ main
    \/ call
    \/ get_vhsi
    \/ main_vhsi
    \/ _get_with_retry
    \/ fetch_upcoming_ipos
    \/ fetch_upcoming_ipos_except
    \/ cmd_fetch_list
    \/ fetch_calendar
    \/ cmd_fetch_calendar
    \/ fetch_history
    \/ fetch_history_except
    \/ cmd_fetch_history
    \/ fetch_ipo_detail
    \/ fetch_ipo_detail_except
    \/ cmd_fetch_detail
    \/ get_sponsor_history
    \/ main_sponsor
    \/ search_sponsor
    \/ get_all_sponsors
    \/ search_sponsor_lookup
    \/ get_sponsor_detail
    \/ search_stock_sentiment
    \/ _search_ddg
    \/ _fetch_tweet_via_fxtwitter

Spec == Init /\ [][Next]_vars


\* ------------------------------------------------------------------ claims

FetchCommands == {"list", "detail", "history"}

\* the latest call of _get_with_retry made its last allowed attempt and that
\* attempt raised a retried class: the fetch exhausted its retries
Exhausted == outcome \in Retryable /\ attempt = 2 /\ pc \in {"except", "print", "exit"}

\* C1: in every call of _get_with_retry a request is made only as attempt 1,
\* 2 or 3, and after the first only when the attempt before raised one of the
\* three retried classes; an answer is returned at once as the body; the
\* third retried failure in a row is re-raised; any other exception is raised
\* from the attempt it occurs in, with no further attempt.
C1_RetryPolicy ==
    [][pc = "get" =>
        /\ attempt + 1 <= 3
        /\ (attempt > 0 => outcome \in {"RemoteProtocolError", "ConnectError", "ReadTimeout"})
        /\ (outcome' = "ok" => pc' = "parse" /\ html' \in Pages)
        /\ (outcome' \in {"RemoteProtocolError", "ConnectError", "ReadTimeout"} /\ attempt + 1 < 3
               => pc' = "get" /\ attempt' = attempt + 1)
        /\ (outcome' \in {"RemoteProtocolError", "ConnectError", "ReadTimeout"} /\ attempt + 1 = 3
               => pc' = "except" /\ exc' = outcome')
        /\ (outcome' \notin {"ok", "RemoteProtocolError", "ConnectError", "ReadTimeout"}
               => pc' = "except" /\ exc' = outcome')
    ]_vars

\* the third attempt in a row has raised a retried class and it is re-raised
C1_Witness == pc = "except" /\ attempt = 2 /\ exc \in Retryable

\* C2 as stated: when a page fetch exhausts its retries during fetch list,
\* fetch detail or fetch history, the command ends with a message, a
\* non-zero exit status and no JSON on its output.
C2_NoJsonOnExhaustion ==
    (cmd \in FetchCommands /\ pc = "exit" /\ Exhausted)
        => stderr # << >> /\ exit_code # 0 /\ stdout = << >>

\* what fetch_ipo_detail has filled in when the fetch of page pageno fails
PartialDetail ==
    IF pageno = 1 THEN detail0(Code) ELSE detail_profile(detail0(Code), html)

\* C2 as amended: when a page fetch exhausts its retries during fetch list,
\* fetch detail or fetch history, the extractor prints one message naming
\* the error on standard error, and the command still prints one JSON
\* document and ends with exit status 0: {"ipos": []} for list and history,
\* and for detail the record as filled so far (the defaults, with the
\* profile page's fields when it was the second page that failed).
C2_EmptyJsonOnExhaustion ==
    (cmd \in FetchCommands /\ pc = "exit" /\ Exhausted)
        => /\ Len(stderr) = 1 /\ stderr[1][2] = outcome
           /\ exit_code = 0
           /\ stdout = << IF cmd = "detail" THEN PartialDetail ELSE [ipos |-> << >>] >>

\* fetch detail ended after its second page exhausted the retries, the
\* profile page having given the industry
C2_Witness ==
    /\ cmd = "detail" /\ pc = "exit" /\ Exhausted /\ pageno = 2
    /\ stdout # << >> /\ detail.industry # << >>


\* the rows of a table that have the cells the extractor needs and whose
\* name cell holds a name and a code: the rows that stand for an IPO
Qualifying(rs, mincells, namecell) ==
    SelectSeq(rs, LAMBDA c : /\ Len(c) >= mincells
                             /\ cell(c, namecell).a # None
                             /\ cell(c, namecell).hk # None)

Min(a, b) == IF a < b THEN a ELSE b

\* the extractor of the command returned after it found its table
Extracted(c) == cmd = c /\ pc = "print" /\ outcome = "ok" /\ html.anchor

\* C3 as stated: in fetch_upcoming_ipos and fetch_history a numeric cell whose
\* text cannot be converted degrades only its field to the sentinel: every
\* row that stands for an IPO is returned (up to the limit, for history), in
\* order, and a lot size or entry fee that is no numeral is returned as 0.
C3_FieldDegradesOnly ==
    /\ Extracted("list") =>
          LET q == Qualifying(html.rows, 8, 0)
          IN  /\ Len(ret) = Len(q)
              /\ \A k \in 1..Len(q) :
                    /\ ret[k].code = cell(q[k], 0).hk[1]
                    /\ (~IntOK(clean_num(cell(q[k], 3))) => ret[k].lot_size = 0)
                    /\ (~FloatOK(clean_num(cell(q[k], 4))) => ret[k].entry_fee = Zero)
    /\ (Extracted("history") /\ limit >= 0) =>
          LET q == Qualifying(html.rows, 12, 1)
          IN  /\ Len(ret.ipos) = Min(limit, Len(q))
              /\ \A k \in 1..Min(limit, Len(q)) : ret.ipos[k].code = cell(q[k], 1).hk[1]

\* C4: for every page body fetched in which the anchor of the extractor is
\* absent (table tblGMUpcoming, the tbody of the ns2 dataTable), the
\* extractor returns the empty result, [] resp. {"ipos": []}, and no
\* exception is raised: nothing is handled, nothing is written to standard
\* error.
C4_MissingAnchorIsEmpty ==
    \A c \in {"list", "history"} :
        (cmd = c /\ outcome = "ok" /\ ~html.anchor)
            => /\ pc \in {"parse", "print", "exit"}
               /\ exc = "none" /\ stderr = << >>
               /\ (pc \in {"print", "exit"} =>
                      ret = IF c = "list" THEN << >> ELSE [ipos |-> << >>])
               /\ (pc = "exit" => stdout = << [ipos |-> << >>] >>)

\* fetch_history has returned for a page without the table body
C4_Witness ==
    cmd = "history" /\ outcome = "ok" /\ ~html.anchor /\ pc = "print" /\ ret = [ipos |-> << >>]


\* the row loop of the extractor of command c
RowOf(c, cells) ==
    IF c = "list" THEN upcoming_row(cells)
    ELSE IF c = "history" THEN history_row(cells)
    ELSE sponsor_row(cells)

\* the records of the rows rs, one after the other, unless a row raises
RECURSIVE Collect(_, _)
Collect(c, rs) ==
    IF rs = << >> THEN [raised |-> FALSE, recs |-> << >>]
    ELSE LET r    == RowOf(c, Head(rs))
             rest == Collect(c, Tail(rs))
         IN  IF r.kind = "raise" \/ rest.raised THEN [raised |-> TRUE, recs |-> << >>]
             ELSE [raised |-> FALSE,
                   recs   |-> (IF r.kind = "record" THEN << r.rec >> ELSE << >>) \o rest.recs]

\* what the extractor of command c returns for a table of the rows rs
Returned(c, rs) ==
    LET got == Collect(c, rs)
    IN  IF c = "history" THEN [ipos |-> Slice(got.recs, limit)] ELSE got.recs

\* the table of the command's page was found and its extractor returned
TableRead(c) ==
    /\ cmd = c /\ pc = "print" /\ outcome = "ok"
    /\ IF c = "sponsor" THEN html.table /\ html.tbody ELSE html.anchor

\* C5: for every table a row with fewer cells than expected (8 for the
\* upcoming list, 12 for history, 10 for the sponsor summary) is skipped
\* without raising, and what is returned is what is returned for the table
\* without its short rows: the same records in the same order.
C5_ShortRowsSkipped ==
    \A c \in {"list", "history", "sponsor"} :
        TableRead(c) =>
            LET expected == IF c = "list" THEN 8 ELSE IF c = "history" THEN 12 ELSE 10
                others   == SelectSeq(html.rows, LAMBDA r : Len(r) >= expected)
            IN  /\ ret = Returned(c, others)
                /\ (~Collect(c, others).raised => stderr = << >>)

\* a short row between two rows that each gave a record
C5_Witness ==
    /\ TableRead("list") /\ Len(html.rows) = 3 /\ Len(html.rows[2]) < 8
    /\ Len(ret) = 2 /\ ret[1].code # ret[2].code

\* C6 as stated: fetch_history(limit) builds the record list from every row
\* that stands for an IPO before it truncates, and for every limit >= 0
\* returns the first min(limit, n) of the n records, in source order.
C6_LimitIsPrefix ==
    (Extracted("history") /\ limit >= 0) =>
        LET n == Len(Qualifying(html.rows, 12, 1))
        IN  /\ Len(ipos) = n
            /\ ret.ipos = SubSeq(ipos, 1, Min(limit, n))

\* C7 as stated: in the record fetch_ipo_detail returns after both pages came,
\* pricing_mechanism is "A" exactly when the clawback list holds a band,
\* every band of the list has a ratio other than zero, pricing_mechanism is
\* "B" exactly when the list is empty and a public-tranche ratio was
\* extracted, and it is None otherwise.
C7_PricingMechanism ==
    (cmd = "detail" /\ pc = "print" /\ pageno = 2 /\ outcome = "ok") =>
        /\ (ret.pricing_mechanism = Some("A") <=> ret.clawback # << >>)
        /\ \A k \in 1..Len(ret.clawback) : ret.clawback[k].ratio # 0
        /\ (ret.pricing_mechanism = Some("B")
               <=> ret.clawback = << >> /\ html.public # None)
        /\ (ret.pricing_mechanism = None
               <=> ret.clawback = << >> /\ html.public = None)

\* get_vhsi returned the dict of an answer
Interpreted == cmd = "vhsi" /\ pc \in {"print", "exit"} /\ outcome = "ok"

\* C8: _interpret_hsi_change puts every signed percentage (here in
\* hundredths) into exactly one of six buckets: > 3 extreme-bullish, (1, 3]
\* bullish, (0, 1] mild-bullish, (-1, 0] neutral, (-3, -1] cautious, <= -3
\* panic.
C8_SixBuckets ==
    Interpreted =>
        LET x == ret.change_pct
            b == ret.interpretation
        IN  /\ (b = "extreme-bullish" <=> x > 300)
            /\ (b = "bullish" <=> (100 < x /\ x <= 300))
            /\ (b = "mild-bullish" <=> (0 < x /\ x <= 100))
            /\ (b = "neutral" <=> (0 - 100 < x /\ x <= 0))
            /\ (b = "cautious" <=> (0 - 300 < x /\ x <= 0 - 100))
            /\ (b = "panic" <=> x <= 0 - 300)

\* a change of exactly 1 percent is interpreted
C8_Witness == Interpreted /\ ret.change_pct = 100 /\ ret.interpretation = "mild-bullish"

\* C9 as stated: 3.0 gives bullish, 3.01 extreme-bullish, -1.0 cautious and
\* -3.0 cautious (not panic).
C9_BoundariesAsStated ==
    Interpreted =>
        /\ (ret.change_pct = 300 => ret.interpretation = "bullish")
        /\ (ret.change_pct = 301 => ret.interpretation = "extreme-bullish")
        /\ (ret.change_pct = 0 - 100 => ret.interpretation = "cautious")
        /\ (ret.change_pct = 0 - 300 => ret.interpretation = "cautious")

\* C9 as amended: 3.0 gives bullish, 3.01 extreme-bullish, -1.0 cautious and
\* -3.0 panic (not cautious); -2.99 is the last value that gives cautious.
C9_Boundaries ==
    Interpreted =>
        /\ (ret.change_pct = 300 => ret.interpretation = "bullish")
        /\ (ret.change_pct = 301 => ret.interpretation = "extreme-bullish")
        /\ (ret.change_pct = 0 - 100 => ret.interpretation = "cautious")
        /\ (ret.change_pct = 0 - 300 => ret.interpretation = "panic")
        /\ (ret.change_pct = 0 - 299 => ret.interpretation = "cautious")

\* a change of exactly -3 percent is interpreted
C9_Witness == Interpreted /\ ret.change_pct = 0 - 300 /\ pc = "exit"

\* a signed decimal numeral: an optional sign, then digits with at most one
\* point among them
SignedDecimal(t) ==
    LET u == IF t # << >> /\ t[1] \in {"+", "-"} THEN SubSeq(t, 2, Len(t)) ELSE t
    IN  /\ \E k \in 1..Len(u) : u[k] \in Digit
        /\ \A k \in 1..Len(u) : u[k] \in Digit \/ u[k] = "."
        /\ \A j, k \in 1..Len(u) : (u[j] = "." /\ u[k] = ".") => j = k

Parsed == cmd = "_parse_pct" /\ pc = "exit"

\* C10 as stated: _parse_pct removes only a trailing '%' and a leading '+':
\* it returns a decimal exactly when the input, trimmed and without one
\* trailing '%' and one leading '+', is a signed decimal numeral, and None
\* for every other input.
C10_TrailingAndLeadingOnly ==
    Parsed =>
        LET t0 == strip(arg)
            t1 == IF t0 # << >> /\ t0[Len(t0)] = "%"
                  THEN strip(SubSeq(t0, 1, Len(t0) - 1)) ELSE t0
            t2 == IF t1 # << >> /\ t1[1] = "+"
                  THEN strip(SubSeq(t1, 2, Len(t1))) ELSE t1
        IN  ret # None <=> SignedDecimal(t2)

\* C10 as amended: _parse_pct never raises and removes every '%' and every
\* '+', wherever they stand, then trims: it returns a decimal exactly when
\* what is left is a signed decimal numeral, and None (never 0) for every
\* other input, the empty one included.
C10_RemovesEveryPctAndPlus ==
    Parsed =>
        /\ LET left == strip(SelectSeq(arg, LAMBDA c : c \notin {"%", "+"}))
           IN  ret # None <=> SignedDecimal(left)
        /\ (arg = << >> => ret = None)
        /\ (arg = <<"-", "5", "%">> => ret = Some([m |-> 0 - 5, e |-> 0]))
        /\ (arg = <<"+", ".", "5", "%">> => ret = Some([m |-> 5, e |-> 1]))

\* "5%5" is parsed, as 55
C10_Witness == Parsed /\ arg = <<"5", "%", "5">> /\ ret = Some([m |-> 55, e |-> 0])


Normalized == cmd = "_normalize_sponsor_name" /\ pc = "exit"

\* C11 as stated: _normalize_sponsor_name is idempotent: normalising what it
\* returned gives it back, for every name, those included in which removing
\* a suffix joins its neighbours into a suffix.
C11_NormalizeIdempotent ==
    Normalized => _normalize_sponsor_name(ret) = ret


\* search_sponsor(arg.sponsors, arg.name) has gone through the list
Searched == cmd = "search_sponsor" /\ pc # "main"

\* the text a stands somewhere in the text b
Occurs(a, b) ==
    \E i \in 1..(Len(b) + 1) : \E j \in (i - 1)..Len(b) : SubSeq(b, i, j) = a

\* the normalised name searched for and the normalised text sponsor_name
\* contain one another, one way or the other
Contained(sponsor_name) ==
    LET a == _normalize_sponsor_name(arg.name)
        b == _normalize_sponsor_name(sponsor_name)
    IN  Occurs(a, b) \/ Occurs(b, a)

\* entry k of the summary list matches the name searched for
Matching(k) == Contained(get_name(arg.sponsors[k]))

\* C12: search_sponsor returns the first entry of the summary list, in list
\* order, whose normalised name contains the normalised name searched for
\* or is contained in it; a later matching entry is never preferred; and
\* 證 searched for matches the entry 证有限公司.
C12_FirstMatchWins ==
    Searched =>
        /\ \A k \in 1..Len(arg.sponsors) :
               (Matching(k) /\ \A j \in 1..(k - 1) : ~Matching(j))
                   => (pc = "exit" /\ ret = Some(arg.sponsors[k]))
        /\ (/\ arg.name = <<"ZHENG">>
            /\ arg.sponsors # << >>
            /\ arg.sponsors[1].name = Some(<<"zheng", "youxian", "gongsi">>))
               => ret = Some(arg.sponsors[1])

\* two different entries match, one containing the name searched for, one
\* contained in it, and the first is returned
C12_Witness ==
    /\ Searched /\ arg.name = <<"a", "zheng", "a">> /\ Len(arg.sponsors) = 2
    /\ arg.sponsors[1].name = Some(<<"zheng", "youxian", "gongsi">>)
    /\ arg.sponsors[2].name = Some(<<"A", "zheng", "youxian", "gongsi">>)
    /\ ret = Some(arg.sponsors[1])

\* win_rate is the tenth nearest to up_count / ipo_count * 100 when
\* ipo_count > 0, and 0 when ipo_count = 0
WinRateOK(r) ==
    IF r.ipo_count > 0
    THEN LET tenths == IF r.win_rate.e = 0 THEN r.win_rate.m * 10 ELSE r.win_rate.m
             diff   == tenths * r.ipo_count - r.up_count * 1000
         IN  /\ r.win_rate.e <= 1
             /\ 2 * diff <= r.ipo_count
             /\ 0 - 2 * diff <= r.ipo_count
    ELSE r.ipo_count = 0 => r.win_rate = Zero

\* C13: in every sponsor record, read from the summary table by
\* get_sponsor_history or made of a sponsor's own page by
\* get_sponsor_detail, win_rate is up_count / ipo_count * 100 rounded to one
\* decimal when ipo_count > 0 and 0 when ipo_count = 0, whatever the rows
\* hold; 14 of 20 gives 70.0.
C13_WinRate ==
    /\ TableRead("sponsor") =>
           \A k \in 1..Len(ret) :
               /\ WinRateOK(ret[k])
               /\ (ret[k].ipo_count = 20 /\ ret[k].up_count = 14)
                      => ret[k].win_rate = [m |-> 70, e |-> 0]
    /\ (cmd = "search_sponsor" /\ detail # None) => WinRateOK(detail[1])

\* two of the three IPOs of a sponsor's own page went up: 66.7
C13_Witness ==
    /\ cmd = "search_sponsor" /\ pc = "exit" /\ ret # None /\ log # << >>
    /\ ret[1].ipo_count = 3 /\ ret[1].up_count = 2
    /\ ret[1].win_rate = [m |-> 667, e |-> 1]

\* C16: search_sponsor asks for the directory (get_all_sponsors) only after
\* every entry of the summary list failed to match, and once; it asks for a
\* sponsor's own page only for a directory entry whose normalised name
\* matches the name searched for, and for none after a usable one; it returns
\* None, and raises nothing, exactly when neither source gave a match with a
\* usable detail.
C16_DirectoryIsFallback ==
    cmd = "search_sponsor" =>
        /\ log # << >> =>
               /\ \A k \in 1..Len(arg.sponsors) : ~Matching(k)
               /\ log[1].call = "get_all_sponsors"
        /\ \A n \in 2..Len(log) :
               /\ log[n].call = "get_sponsor_detail"
               /\ \E k \in 1..Len(html) :
                      html[k].value = log[n].id /\ Contained(html[k].name)
               /\ (n < Len(log) => ~log[n].usable)
        /\ pc = "exit" =>
               /\ exc = "none"
               /\ ((\A k \in 1..Len(arg.sponsors) : ~Matching(k)) => log # << >>)
               /\ ret = None <=>
                      /\ \A k \in 1..Len(arg.sponsors) : ~Matching(k)
                      /\ \A n \in 2..Len(log) : ~log[n].usable

\* None is returned after the one matching directory entry gave no detail
C16_Witness ==
    /\ cmd = "search_sponsor" /\ pc = "exit" /\ ret = None
    /\ arg.sponsors # << >> /\ Len(html) = 2
    /\ Len(log) = 2 /\ ~log[2].usable

\* C19: when the name searched for normalises to the empty text ("", a
\* blank, 有限公司) and the summary list is not empty, search_sponsor
\* returns the first entry of the list; when an entry's name normalises to
\* the empty text (an entry without the key "name"), that entry or a
\* matching one before it is returned; the directory is not asked for in
\* either case.
C19_EmptyNameMatches ==
    Searched =>
        /\ (_normalize_sponsor_name(arg.name) = << >> /\ arg.sponsors # << >>)
               => (pc = "exit" /\ ret = Some(arg.sponsors[1]) /\ log = << >>)
        /\ \A k \in 1..Len(arg.sponsors) :
               _normalize_sponsor_name(get_name(arg.sponsors[k])) = << >>
                   => /\ pc = "exit"
                      /\ log = << >>
                      /\ \E j \in 1..k :
                             /\ ret = Some(arg.sponsors[j])
                             /\ \A i \in 1..(j - 1) : ~Matching(i)

\* 有限公司 searched for: the first entry, of another name, is returned
C19_Witness ==
    /\ Searched /\ arg.name = <<"youxian", "gongsi">> /\ Len(arg.sponsors) = 2
    /\ arg.sponsors[1].name = Some(<<"b", "b">>)
    /\ ret = Some(arg.sponsors[1]) /\ log = << >>


Sentiment == cmd = "search_stock_sentiment"

\* the posts the searches of the call have found so far
Found ==
    UNION { log[n].ids : n \in {n \in 1..Len(log) : log[n].call = "_search_ddg"} }

\* the places of the log at which a post's metadata was asked for
Fetches == {n \in 1..Len(log) : log[n].call = "_fetch_tweet_via_fxtwitter"}

\* likes + retweets of a post, as the metadata API has them
Engagement(status_id) ==
    payload_of(status_id).likes.v + payload_of(status_id).retweets.v

\* C14 as stated: when every post found can be fetched and is relevant,
\* search_stock_sentiment(stock_name, limit) returns the limit posts of
\* highest engagement (likes + retweets) among the posts found, greatest
\* first, whatever the order in which the searches gave them.
C14_TopByEngagement ==
    (/\ Sentiment /\ pc = "exit" /\ limit >= 0
     /\ arg.payload \in {Post(10, 5), Post(0, 0)}) =>
        LET ids == {ret[k].url.status_id : k \in 1..Len(ret)}
        IN  /\ Len(ret) = Min(limit, Cardinality(Found))
            /\ ids \subseteq Found
            /\ \A k \in 1..(Len(ret) - 1) :
                   Engagement(ret[k].url.status_id) >= Engagement(ret[k + 1].url.status_id)
            /\ \A c \in Found \ ids : \A i \in ids : Engagement(c) <= Engagement(i)

\* an answer the call is to discard: the fetch failed, the text printed is
\* not JSON or not an object, the code is not 200, or the tweet, its author,
\* text, likes or retweets are null or of the wrong type
Discardable(payload) ==
    \/ payload.run # "ok"
    \/ payload.doc # "object"
    \/ payload.code # 200
    \/ payload.tweet = "null"
    \/ payload.author = "null"
    \/ payload.text_type \in {"null", "int"}
    \/ payload.likes.t \in {"null", "str"}
    \/ payload.retweets.t \in {"null", "str"}

\* C15 as stated: a post whose metadata fetch fails, whose answer is
\* malformed or whose code is not 200 is discarded; the call never raises,
\* goes on with the other posts (when it returns fewer than limit tweets,
\* every post found was asked for), and returns without the discarded post.
C15_BadAnswerIsDiscarded ==
    Sentiment =>
        /\ pc # "raised"
        /\ pc = "exit" =>
               /\ Discardable(arg.payload) =>
                      \A k \in 1..Len(ret) : ret[k].url.status_id # 1
               /\ Len(ret) < limit => Found \subseteq seen_ids

\* C17: within one call no status id is asked of the metadata API more than
\* once, across the queries and within one query's results, whether its
\* first fetch gave a tweet that was accepted, one that was filtered out, or
\* nothing; so no status id stands twice in the result.
C17_FetchedOnce ==
    Sentiment =>
        /\ \A m, n \in Fetches : log[m].id = log[n].id => m = n
        /\ \A n \in Fetches : log[n].id \in seen_ids
        /\ pc = "exit" =>
               \A j, k \in 1..Len(ret) :
                   ret[j].url.status_id = ret[k].url.status_id => j = k

\* post 1, whose fetch failed, was found by two searches and asked for once
C17_Witness ==
    /\ Sentiment /\ pc = "exit" /\ arg.payload.run = "nonzero"
    /\ \E m, n \in 1..Len(log) :
           /\ m < n
           /\ log[m].call = "_search_ddg" /\ 1 \in log[m].ids
           /\ log[n].call = "_search_ddg" /\ 1 \in log[n].ids
    /\ Cardinality({n \in Fetches : log[n].id = 1}) = 1

\* C18: with limit >= 0 the number of tweets accepted never exceeds limit;
\* every search and every metadata fetch is made while fewer than limit
\* tweets are accepted, none once limit is reached; with limit = 0 no
\* request is made at all.
C18_StopsAtLimit ==
    (Sentiment /\ limit >= 0) =>
        /\ Len(tweets) <= limit
        /\ \A n \in 1..Len(log) : log[n].accepted < limit
        /\ limit = 0 => log = << >>
        /\ pc = "exit" => Len(ret) <= limit

\* the first post of a search was accepted and reached the limit; the
\* second was not asked for, and no second search was made
C18_Witness ==
    /\ Sentiment /\ pc = "exit" /\ limit = 1 /\ Len(ret) = 1
    /\ Len(log) = 2 /\ Cardinality(log[1].ids) = 2
    /\ log[2].call = "_fetch_tweet_via_fxtwitter"


\* is_ah_stock is set exactly when an A-share code is
AhConsistent(r) == r.is_ah_stock <=> r.a_share_code # None

\* C20: in every record fetch_upcoming_ipos and fetch_ipo_detail return, and
\* in every record they hold on the way, on the paths that end well and on
\* those that end in the handler (a fetch that fails before or between the
\* two detail pages included), is_ah_stock is true exactly when
\* a_share_code is not None.
C20_AhFlagMatchesCode ==
    /\ cmd = "list" =>
           /\ \A k \in 1..Len(ipos) : AhConsistent(ipos[k])
           /\ pc \in {"print", "exit"} => \A k \in 1..Len(ret) : AhConsistent(ret[k])
    /\ (cmd = "detail" /\ pc # "main") =>
           /\ AhConsistent(detail)
           /\ pc \in {"print", "exit"} => AhConsistent(ret)

\* the record of an A+H stock is returned by fetch_ipo_detail
C20_Witness ==
    /\ cmd = "detail" /\ pc = "print" /\ outcome = "ok"
    /\ ret.is_ah_stock /\ ret.a_share_code = Some("300750")


\* C21: fetch_calendar partitions the IPOs fetch_upcoming_ipos returned by
\* deadline: every returned IPO has its deadline among the rounds', each
\* round holds exactly the returned IPOs of its deadline, in the order they
\* were returned, no two rounds have the same deadline, and the rounds come
\* in ascending order of their deadlines.
C21_CalendarPartition ==
    [][(cmd = "calendar" /\ pc = "group" /\ pc' = "print") =>
        LET returned == ret
            rounds   == ret'.rounds
            of(d)    == SelectSeq(returned, LAMBDA ipo : ipo.deadline = d)
            entry(ipo) == [code |-> ipo.code, name |-> ipo.name,
                           entry_fee |-> ipo.entry_fee, listing_date |-> ipo.listing_date]
        IN  /\ \A k \in 1..Len(returned) :
                   \E i \in 1..Len(rounds) : rounds[i].deadline = returned[k].deadline
            /\ \A i \in 1..Len(rounds) :
                   /\ rounds[i].ipos # << >>
                   /\ rounds[i].ipos =
                          [j \in 1..Len(of(rounds[i].deadline)) |-> entry(of(rounds[i].deadline)[j])]
            /\ \A i, j \in 1..Len(rounds) :
                   i < j => /\ rounds[i].deadline # rounds[j].deadline
                            /\ str_lt(rounds[i].deadline, rounds[j].deadline)
    ]_vars

\* fetch_calendar returned two rounds for three IPOs that the page did not
\* list in the order of their deadlines, the later round holding two
\* different IPOs
C21_Witness ==
    /\ cmd = "calendar" /\ pc = "print" /\ outcome = "ok" /\ html.anchor
    /\ Len(ret.rounds) = 2
    /\ Len(ret.rounds[2].ipos) = 2
    /\ ret.rounds[2].ipos[1].code # ret.rounds[2].ipos[2].code
    /\ Returned("list", html.rows) # ipos

====
